---- MODULE Spec2Model ----
(***************************************************************************)
(* Model of the ppcgrader command runner: the Compiler builder values of   *)
(* ppcgrader/compiler.py, the timeout policy functions and the exec        *)
(* pipelines of ppcgrader/commands.py.                                     *)
(*                                                                         *)
(* Python values are modelled as follows.  A str is a TLA+ string.  A list *)
(* is a sequence.  A Compiler object is a record held in `heap`; its       *)
(* identity is its index in `heap`, so that two references to one object   *)
(* (aliasing) and two equal but independent objects are told apart.        *)
(***************************************************************************)
EXTENDS Integers, Sequences, FiniteSets, TLC

VARIABLES
    system,     \* platform.system(): "Linux" or "Darwin"
    machine,    \* platform.machine(): "x86_64" or "arm64"
    argv1,      \* sys.argv[1], the CLI subcommand keyword
    files,      \* the files on disk: path |-> text (test files), or program
                \* |-> how its probe ends (the compilers of the machine)
    heap,       \* the Compiler objects constructed so far, by identity
    hist,       \* per object: the mutator calls that made it what it is
    last,       \* the last call made: operation, receiver, arguments, result
    status,     \* "running", or how the process ended: "exit" (sys.exit), "raise"
    cmd,        \* the Command whose exec is running (its CLI name)
    config,     \* the Config collaborator's answers
    args,       \* the arguments of exec: compiler, tests, timeout, no_timeout
    pc,         \* where exec is
    used,       \* the Compiler value handed to the compile step (0: none yet)
    tests,      \* the tests collected by collect_tests
    idx,        \* how many tests the loop has been through
    events,     \* what exec has done so far, in order
    ret         \* what exec returned ("pending" until it does)

envVars == <<system, machine, argv1, files>>
objVars == <<heap, hist>>
execVars == <<cmd, config, args, pc, used, tests, idx, events, ret>>
vars == <<system, machine, argv1, files, heap, hist, last, status,
          cmd, config, args, pc, used, tests, idx, events, ret>>

----------------------------------------------------------------------------
(* Bounds of the model.                                                    *)

\* Mutator calls made on Compiler values in one run.
MaxCalls == 3

----------------------------------------------------------------------------
(* compiler.py: the Compiler hierarchy.                                    *)

NoVersion == <<>>

GccCommonFlags ==
    << "-std=c++2a", "-Wall", "-Wextra", "-Wvla", "-Werror",
       "-Wno-error=unknown-pragmas", "-Wno-error=unused-but-set-variable",
       "-Wno-error=unused-local-typedefs", "-Wno-error=unused-function",
       "-Wno-error=unused-label", "-Wno-error=unused-value",
       "-Wno-error=unused-variable", "-Wno-error=unused-parameter",
       "-Wno-error=unused-but-set-parameter", "-Wno-psabi", "-march=native",
       "-fdiagnostics-color=never" >>

ClangBaseFlags ==
    << "-std=c++2a", "-Wall", "-Wextra", "-Wvla", "-Werror",
       "-Wno-unknown-warning-option",
       "-Wno-error=unknown-pragmas", "-Wno-error=unused-but-set-variable",
       "-Wno-error=unused-local-typedefs", "-Wno-error=unused-function",
       "-Wno-error=unused-label", "-Wno-error=unused-value",
       "-Wno-error=unused-variable", "-Wno-error=unused-parameter",
       "-Wno-error=unused-but-set-parameter", "-march=native" >>

\* ClangCompiler.__init__: flags[:-1] on Darwin/arm64, -Wno-psabi for a
\* non-Apple clang of major version >= 11.
ClangCommonFlags(sys, mach, version, apple) ==
    LET flags == IF sys = "Darwin" /\ mach = "arm64"
                 THEN SubSeq(ClangBaseFlags, 1, Len(ClangBaseFlags) - 1)
                 ELSE ClangBaseFlags
    IN  IF version # NoVersion /\ version[1] >= 11 /\ apple = "False"
        THEN Append(flags, "-Wno-psabi")
        ELSE flags

NvccCommonFlags ==
    << "-std=c++17", "--Werror", "cross-execution-space-call", "-Xptxas",
       "--warn-on-spills",
       "-Xcompiler", "\"-Wall\"", "-Xcompiler", "\"-Wextra\"",
       "-Xcompiler", "\"-Werror\"",
       "-Xcompiler", "\"-Wno-error=unknown-pragmas\"",
       "-Xcompiler", "\"-Wno-error=unused-local-typedefs\"",
       "-Xcompiler", "\"-Wno-error=unused-function\"",
       "-Xcompiler", "\"-Wno-error=unused-label\"",
       "-Xcompiler", "\"-Wno-error=unused-value\"",
       "-Xcompiler", "\"-Wno-error=unused-variable\"",
       "-Xcompiler", "\"-Wno-error=unused-parameter\"",
       "-Xcompiler", "\"-Wno-psabi\"",
       "-Xcompiler", "\"-march=native\"" >>

\* Compiler.__init__: empty sources, flags and libs; program and common_flags
\* as given by the subclass.
NewCompiler(cls, program, common_flags, version, apple) ==
    [ cls          |-> cls,
      program      |-> program,
      common_flags |-> common_flags,
      flags        |-> <<>>,
      sources      |-> <<>>,
      libs         |-> <<>>,
      version      |-> version,
      apple        |-> apple ]

\* GccCompiler(program), ClangCompiler(program) and NvccCompiler(program) once
\* the version probe has returned.
GccCompiler(program, version) ==
    NewCompiler("GccCompiler", program, GccCommonFlags, version, "None")

ClangCompiler(program, sys, mach, version, apple) ==
    NewCompiler("ClangCompiler", program,
                ClangCommonFlags(sys, mach, version, apple), version, apple)

NvccCompiler(program) ==
    NewCompiler("NvccCompiler", program, NvccCommonFlags, NoVersion, "None")

\* The mutators below return [heap, ret]: the heap after the call and the
\* reference the call returns.

\* copy.deepcopy(self): a new object (a new index in the heap) with equal,
\* unshared attribute values.  Returns the heap and the reference returned.
deepcopy_with(h, i, me) == [ heap |-> Append(h, me), ret |-> Len(h) + 1 ]

add_source(h, i, file) ==
    deepcopy_with(h, i, [h[i] EXCEPT !.sources = Append(@, file)])

startswith(s, prefix) ==
    Len(s) >= Len(prefix) /\ SubSeq(s, 1, Len(prefix)) = prefix

add_library(h, i, lib) ==
    LET l == IF ~startswith(lib, "-l") THEN "-l" \o lib ELSE lib
    IN  deepcopy_with(h, i, [h[i] EXCEPT !.libs = Append(@, l)])

\* A mutator that appends to the receiver itself and returns it.
add_flag_in_place(h, i, fs) ==
    [ heap |-> [h EXCEPT ![i].flags = @ \o fs], ret |-> i ]

add_flag(h, i, fs) ==
    deepcopy_with(h, i, [h[i] EXCEPT !.flags = @ \o fs])

add_definition(h, i, name, value) ==
    IF value = "None"
    THEN add_flag(h, i, << "-D" \o name >>)
    ELSE add_flag(h, i, << "-D" \o name \o "=" \o value >>)

\* Compiler.add_omp_flags (inherited by GccCompiler).
Compiler_add_omp_flags(h, i) == add_flag(h, i, << "-fopenmp" >>)

\* NvccCompiler.add_omp_flags: `self.common_flags += [...]; return self`.
NvccCompiler_add_omp_flags(h, i) ==
    [ heap |-> [h EXCEPT ![i].common_flags = @ \o << "-Xcompiler", "-fopenmp" >>],
      ret  |-> i ]

\* ClangCompiler.add_omp_flags once the Homebrew checks have passed (Darwin)
\* or directly (elsewhere).  Each `self = self.add_flag(...)` rebinds the local
\* name to a fresh copy; the intermediate copies are garbage and only the last
\* one is returned.
ClangCompiler_add_omp_flags(h, i, sys, sub, brew_dir) ==
    IF sys = "Darwin"
    THEN LET incl == << "-Xpreprocessor", "-fopenmp",
                        "-I", brew_dir \o "/include",
                        "-I", brew_dir \o "/opt/libomp/include" >>
             link == << "-lomp",
                        "-L", brew_dir \o "/lib",
                        "-L", brew_dir \o "/opt/libomp/lib" >>
         IN  IF sub # "assembly"
             THEN add_flag(h, i, incl \o link)
             ELSE add_flag(h, i, incl)
    ELSE add_flag(h, i, << "-fopenmp" >>)

\* The argument vector with the libraries ahead of the output file.
compile_command_libs_first(c, out_file) ==
    << c.program >> \o c.common_flags \o c.flags \o c.sources
        \o c.libs \o << "-o", out_file >>

compile_command(c, out_file) ==
    << c.program >> \o c.common_flags \o c.flags \o c.sources
        \o << "-o", out_file >> \o c.libs

----------------------------------------------------------------------------
(* commands.py: the timeout policy functions.                              *)
(*                                                                         *)
(* A Python value that may be None, a bool, a number or float("inf") is a  *)
(* tagged record; a call that raises yields the exception in place of a    *)
(* value.  Numbers are whole seconds.                                      *)

PyNone == [ k |-> "None" ]
PyInf == [ k |-> "inf" ]
PyNum(v) == [ k |-> "num", v |-> v ]
PyBool(b) == [ k |-> "bool", v |-> b ]
Raise(exc) == [ k |-> "raise", exc |-> exc ]

\* Python truth value testing (`if x:`).
Truthy(x) ==
    CASE x.k = "None" -> FALSE
      [] x.k = "bool" -> x.v
      [] x.k = "num"  -> x.v # 0
      [] x.k = "inf"  -> TRUE

\* a + b on floats.
PyAdd(a, b) ==
    IF a.k = "inf" \/ b.k = "inf" THEN PyInf ELSE PyNum(a.v + b.v)

CharAt(s, j) == SubSeq(s, j, j)

RECURSIVE FindFrom(_, _, _)
\* The least index >= j at which character ch occurs in s, or 0.
FindFrom(s, ch, j) ==
    IF j > Len(s) THEN 0
    ELSE IF CharAt(s, j) = ch THEN j
    ELSE FindFrom(s, ch, j + 1)

\* file.readline(): the text up to and including the first newline.
readline(text) ==
    LET nl == FindFrom(text, "\n", 1)
    IN  IF nl = 0 THEN text ELSE SubSeq(text, 1, nl)

RECURSIVE split(_, _)
\* str.split(sep) with a one-character separator: every occurrence splits,
\* so the result has one more element than there are separators.
split(s, sep) ==
    LET at == FindFrom(s, sep, 1)
    IN  IF at = 0 THEN << s >>
        ELSE << SubSeq(s, 1, at - 1) >> \o split(SubSeq(s, at + 1, Len(s)), sep)

IsSpace(ch) == ch \in { " ", "\n", "\t", "\r" }

RECURSIVE strip(_)
\* str.strip(): without leading and trailing whitespace.
strip(s) ==
    IF s = "" THEN s
    ELSE IF IsSpace(CharAt(s, 1)) THEN strip(SubSeq(s, 2, Len(s)))
    ELSE IF IsSpace(CharAt(s, Len(s))) THEN strip(SubSeq(s, 1, Len(s) - 1))
    ELSE s

Digits == { "0", "1", "2", "3", "4", "5", "6", "7", "8", "9" }

DigitValue(ch) ==
    CASE ch = "0" -> 0 [] ch = "1" -> 1 [] ch = "2" -> 2 [] ch = "3" -> 3
      [] ch = "4" -> 4 [] ch = "5" -> 5 [] ch = "6" -> 6 [] ch = "7" -> 7
      [] ch = "8" -> 8 [] ch = "9" -> 9

RECURSIVE Decimal(_, _)
\* The value of the digit string s, read after the value acc.
Decimal(s, acc) ==
    IF s = "" THEN acc
    ELSE Decimal(SubSeq(s, 2, Len(s)), 10 * acc + DigitValue(CharAt(s, 1)))

AllDigits(s) == s # "" /\ \A j \in 1..Len(s) : CharAt(s, j) \in Digits

\* float(s) for the numerals that occur in the files of the model: optional
\* whitespace around an optionally signed string of digits.  Anything else
\* there is no numeral, and float raises ValueError.
float(s) ==
    LET t    == strip(s)
        sign == IF t # "" /\ CharAt(t, 1) \in { "+", "-" } THEN CharAt(t, 1) ELSE ""
        body == IF sign = "" THEN t ELSE SubSeq(t, 2, Len(t))
    IN  IF ~AllDigits(body) THEN Raise("ValueError")
        ELSE IF sign = "-" THEN PyNum(0 - Decimal(body, 0))
        ELSE PyNum(Decimal(body, 0))

\* parse_timeout from `first_line = open(file, 'r').readline().split(' ')` on:
\* the timeout the file declares.  first_line[1] of a one-element list is an
\* IndexError.
declared_timeout(fls, file, extra_timeout) ==
    IF file \notin DOMAIN fls THEN Raise("OSError")   \* open() of what is no file
    ELSE
    LET first_line == split(readline(fls[file]), " ")
    IN  IF first_line[1] = "timeout"
        THEN IF Len(first_line) < 2 THEN Raise("IndexError")
             ELSE LET seconds == float(first_line[2])
                  IN  IF seconds.k = "raise" THEN seconds
                      ELSE IF extra_timeout # PyNone
                           THEN PyAdd(seconds, extra_timeout)
                           ELSE seconds
        ELSE PyNone

\* parse_timeout that adds extra_timeout to the override as well.
parse_timeout_extra_on_override(fls, file, timeout, no_timeout, extra_timeout) ==
    IF Truthy(no_timeout) THEN PyNone
    ELSE IF Truthy(timeout)
         THEN (IF extra_timeout # PyNone THEN PyAdd(timeout, extra_timeout) ELSE timeout)
    ELSE declared_timeout(fls, file, extra_timeout)

parse_timeout(fls, file, timeout, no_timeout, extra_timeout) ==
    IF Truthy(no_timeout) THEN PyNone
    ELSE IF Truthy(timeout) THEN timeout
    ELSE declared_timeout(fls, file, extra_timeout)

RECURSIVE test_set_loop(_, _, _, _, _, _)
\* The loop of timeout_for_test_set over the tests still to come, with
\* total_timeout so far.
test_set_loop(fls, rest, timeout, no_timeout, extra_timeout, total_timeout) ==
    IF rest = <<>> THEN total_timeout
    ELSE LET test_timeout == parse_timeout(fls, Head(rest), timeout, no_timeout,
                                           extra_timeout)
         IN  IF test_timeout.k = "raise" THEN test_timeout
             ELSE IF test_timeout # PyNone
                  THEN test_set_loop(fls, Tail(rest), timeout, no_timeout,
                                     extra_timeout, PyAdd(total_timeout, test_timeout))
                  ELSE PyInf

timeout_for_test_set(fls, tests_, timeout, no_timeout, extra_timeout) ==
    test_set_loop(fls, tests_, timeout, no_timeout, extra_timeout, PyNum(0))

\* The default with which compile_timeout answers when there is no override.
DefaultCompileTimeout == 10

\* compile_timeout that lets an override win over no_timeout.
compile_timeout_override_first(timeout, no_timeout) ==
    IF Truthy(timeout) THEN timeout
    ELSE IF Truthy(no_timeout) THEN PyInf
    ELSE PyNum(DefaultCompileTimeout)

compile_timeout(timeout, no_timeout) ==
    IF Truthy(no_timeout) THEN PyInf
    ELSE IF Truthy(timeout) THEN timeout
    ELSE PyNum(DefaultCompileTimeout)

----------------------------------------------------------------------------
(* commands.py: test discovery.                                            *)

\* The characters of the paths of the model, in code point order.
CodePoints == "*-./0123456789_abcdefghijklmnopqrstuvwxyz"

Ord(ch) == FindFrom(CodePoints, ch, 1)

RECURSIVE StrLess(_, _)
\* a < b on str: the order sorted() sorts by.
StrLess(a, b) ==
    IF b = "" THEN FALSE
    ELSE IF a = "" THEN TRUE
    ELSE IF CharAt(a, 1) = CharAt(b, 1)
         THEN StrLess(SubSeq(a, 2, Len(a)), SubSeq(b, 2, Len(b)))
    ELSE Ord(CharAt(a, 1)) < Ord(CharAt(b, 1))

RECURSIVE sorted(_)
\* sorted(glob.glob(pattern)): the matches, which glob yields without
\* duplicates, in ascending order.
sorted(S) ==
    IF S = {} THEN <<>>
    ELSE LET m == CHOOSE x \in S : \A y \in S : y = x \/ StrLess(x, y)
         IN  << m >> \o sorted(S \ { m })

RECURSIVE fnmatch(_, _)
\* Whether path matches the glob pattern; `*` matches within one path segment.
fnmatch(pattern, path) ==
    IF pattern = "" THEN path = ""
    ELSE IF CharAt(pattern, 1) = "*"
         THEN \/ fnmatch(SubSeq(pattern, 2, Len(pattern)), path)
              \/ /\ path # ""
                 /\ CharAt(path, 1) # "/"
                 /\ fnmatch(pattern, SubSeq(path, 2, Len(path)))
    ELSE /\ path # ""
         /\ CharAt(path, 1) = CharAt(pattern, 1)
         /\ fnmatch(SubSeq(pattern, 2, Len(pattern)), SubSeq(path, 2, Len(path)))

\* glob.glob(pattern) over the files on disk.
glob(fls, pattern) == { f \in DOMAIN fls : fnmatch(pattern, f) }

\* os.path.exists(pattern): a file, or a directory that holds one.
exists(fls, path) ==
    \/ path \in DOMAIN fls
    \/ \E f \in DOMAIN fls : startswith(f, path \o "/")

RECURSIVE expand_loop(_, _)
\* The loop of expand_glob over the patterns.
expand_loop(fls, globs) ==
    IF globs = <<>> THEN <<>>
    ELSE (IF exists(fls, Head(globs)) THEN << Head(globs) >>
          ELSE sorted(glob(fls, Head(globs))))
         \o expand_loop(fls, Tail(globs))

expand_glob_first_default(fls, globs, default) ==
    expand_loop(fls, IF globs = <<>> THEN << Head(default) >> ELSE globs)
expand_glob_with_defaults(fls, globs, default) ==
    expand_loop(fls, globs \o default)
expand_glob(fls, globs, default) ==
    expand_loop(fls, IF globs = <<>> THEN default ELSE globs)

----------------------------------------------------------------------------
(* commands.py: the Command hierarchy.                                     *)

TestCommands ==
    { "test-plain", "test-asan", "test-uninit",
      "test-memcheck-memcheck", "test-memcheck-racecheck",
      "test-memcheck-initcheck", "test-memcheck-synccheck" }
MemcheckCommands ==
    { "test-memcheck-memcheck", "test-memcheck-racecheck",
      "test-memcheck-initcheck", "test-memcheck-synccheck" }
BenchmarkCommands == { "benchmark-all", "benchmark-cache" }
AssemblyCommands == { "assembly", "assembly-ptx", "assembly-sass" }
CompileCommands == { "compile", "compile-debug" }
DemoCommands == { "compile-demo", "demo" }

\* COMMANDS
Commands ==
    AssemblyCommands \cup CompileCommands \cup DemoCommands
        \cup TestCommands \cup BenchmarkCommands

\* The commands whose exec compiles and then runs every collected test.
RunManyCommands == TestCommands \cup BenchmarkCommands

\* The paths the Config collaborator answers with.
ConfigTester == "tester.cc"
ConfigSource == "cp.cc"
ConfigBinary == "cp"
ConfigDemo == "demo.cc"
ConfigDemoBinary == "demo"

\* Config.common_flags(compiler) and Config.demo_flags(compiler): the Compiler
\* the exercise's configuration makes of the given one.
Config_common_flags(r) == r
Config_demo_flags(r) == r

\* extra_timeout of the command's class.
ExtraTimeout(c) == IF c \in MemcheckCommands THEN PyNum(1) ELSE PyNum(0)

\* The default patterns collect_tests of the command's class hands to
\* expand_glob.
DefaultGlobs(c) ==
    CASE c \in { "test-plain", "test-uninit" } -> << "tests/*", "benchmarks/*" >>
      [] c = "test-asan"         -> << "tests/*" >>
      [] c \in BenchmarkCommands -> << "benchmarks/*" >>

\* The directories collect_tests of the command's class hands to
\* no_tests_error.
DefaultDirs(c) ==
    CASE c \in { "test-plain", "test-uninit" } -> << "tests", "benchmarks" >>
      [] c \in MemcheckCommands \cup { "test-asan" } -> << "tests" >>
      [] c \in BenchmarkCommands -> << "benchmarks" >>

\* The `tests = expand_glob(...)` of collect_tests of the command's class.
expanded_tests(c, fls, user_tests) ==
    CASE c \in MemcheckCommands ->
           LET memcheck == expand_glob(fls, user_tests, << "tests/*memcheck*" >>)
           IN  IF memcheck # <<>> THEN memcheck
               ELSE expand_glob(fls, user_tests, << "tests/*medium*" >>)
      [] c \in RunManyCommands \ MemcheckCommands ->
           expand_glob(fls, user_tests, DefaultGlobs(c))
      [] OTHER -> <<>>

\* no_tests_error: sys.exit with a message about the patterns given, or, when
\* none were given, about the default directories.
no_tests_error(orig_tests, dirs) ==
    IF orig_tests # <<>>
    THEN [ k |-> "exit", about |-> "specified tests", names |-> orig_tests ]
    ELSE [ k |-> "exit", about |-> "default tests", names |-> dirs ]

\* A list collect_tests returns.
TestList(found_tests) == [ k |-> "tests", v |-> found_tests ]

\* collect_tests of the command's class: the list returned, or the sys.exit
\* of no_tests_error. The assembly and compile commands return [].
collect_tests_unchecked(c, fls, user_tests) ==
    TestList(expanded_tests(c, fls, user_tests))
collect_tests(c, fls, user_tests) ==
    IF c \in RunManyCommands /\ expanded_tests(c, fls, user_tests) = <<>>
    THEN no_tests_error(user_tests, DefaultDirs(c))
    ELSE TestList(expanded_tests(c, fls, user_tests))

\* A Compiler value in the making: the heap and the reference held.
Ref(h, i) == [ heap |-> h, ret |-> i ]
with_flag(r, flags) == add_flag(r.heap, r.ret, flags)
with_source(r, file) == add_source(r.heap, r.ret, file)
with_definition(r, name, value) == add_definition(r.heap, r.ret, name, value)

RECURSIVE XcompilerQuoted(_)
\* sum((['-Xcompiler', f'"{o}"'] for o in options), [])
XcompilerQuoted(options) ==
    IF options = <<>> THEN <<>>
    ELSE << "-Xcompiler", "\"" \o Head(options) \o "\"" >> \o XcompilerQuoted(Tail(options))

AsanOptions ==
    << "-fsanitize=address", "-fsanitize=undefined", "-fno-omit-frame-pointer",
       "-fno-common", "-Og" >>

\* _prepare_compiler of the command's class (for the assembly commands,
\* _set_compile_flags), applied to Config.common_flags(compiler).
prepare_compiler(c, r) ==
    LET cls == r.heap[r.ret].cls
        O3g == with_flag(with_flag(r, << "-O3" >>), << "-g" >>)
    IN  CASE c \in { "test-plain", "benchmark-all", "benchmark-cache", "compile" } -> O3g
          [] c = "test-asan" ->
               with_definition(
                   with_flag(
                       with_flag(r, IF cls = "NvccCompiler"
                                    THEN XcompilerQuoted(AsanOptions) ELSE AsanOptions),
                       << "-g" >>),
                   "_GLIBCXX_SANITIZE_VECTOR", "1")
          [] c \in MemcheckCommands ->
               with_flag(with_flag(O3g, << "-Xcompiler", "-rdynamic" >>), << "-lineinfo" >>)
          [] c = "test-uninit" ->
               with_flag(O3g, << "-ftrivial-auto-var-init=pattern" >>)
          [] c = "compile-debug" -> with_flag(r, << "-g" >>)
          [] c = "assembly" ->
               IF cls = "NvccCompiler"
               THEN with_flag(r, << "-c", "-Xcompiler", "-O3", "-Xcompiler", "-S",
                                    "-Xcompiler", "-fverbose-asm" >>)
               ELSE with_flag(r, << "-O3", "-S", "-fverbose-asm" >>)
          [] c = "assembly-ptx" -> with_flag(r, << "-ptx", "-lineinfo", "-src-in-ptx" >>)
          [] c = "assembly-sass" -> with_flag(r, << "-cubin" >>)

\* The sources exec adds before compiling, and the binary it asks for.
Sources(c) ==
    CASE c \in AssemblyCommands -> << ConfigSource >>
      [] c \in DemoCommands     -> << ConfigDemo, ConfigSource >>
      [] OTHER                  -> << ConfigTester, ConfigSource >>

OutFile(c) == IF c \in DemoCommands THEN ConfigDemoBinary ELSE ConfigBinary

\* The timeout exec hands to Compiler.compile.
CompileDeadline(c, timeout, no_timeout) ==
    IF c \in AssemblyCommands
    THEN compile_timeout(timeout, no_timeout)
    ELSE compile_timeout(PyNum(DefaultCompileTimeout), no_timeout)

\* TestUninitCommand._gcc_check and _clang_check on a reference (0: None):
\* "True", "False", "None" (no return value, a false value), or "TypeError"
\* for `compiler.version[0]` of a version that is None.
version_check(h, i, cls, least) ==
    IF i = 0 \/ h[i].cls # cls THEN "None"
    ELSE IF h[i].version = NoVersion THEN "TypeError"
    ELSE IF h[i].version[1] >= least THEN "True" ELSE "False"

gcc_check_any_version(h, i) == version_check(h, i, "GccCompiler", 0)
gcc_check(h, i) == version_check(h, i, "GccCompiler", 12)
clang_check(h, i) == version_check(h, i, "ClangCompiler", 8)

\* TestUninitCommand._find_compiler after `super()._find_compiler(None)`:
\* the reference returned (0: None), or the TypeError raised.
Found(i) == [ k |-> "ref", v |-> i ]

uninit_find_compiler_gcc_only(h, given, found_gcc, found_clang) ==
    LET compiler == IF given = 0 THEN found_gcc ELSE given
    IN  CASE gcc_check(h, compiler) = "TypeError" -> Raise("TypeError")
          [] gcc_check(h, compiler) = "True" -> Found(compiler)
          [] OTHER -> Found(0)

uninit_find_compiler(h, given, found_gcc, found_clang) ==
    IF given = 0
    THEN CASE gcc_check(h, found_gcc) = "TypeError" -> Raise("TypeError")
           [] gcc_check(h, found_gcc) = "True" -> Found(found_gcc)
           [] clang_check(h, found_clang) = "TypeError" -> Raise("TypeError")
           [] clang_check(h, found_clang) = "True" -> Found(found_clang)
           [] OTHER -> Found(0)
    ELSE CASE gcc_check(h, given) = "TypeError" -> Raise("TypeError")
           [] gcc_check(h, given) = "True" -> Found(given)
           [] clang_check(h, given) = "TypeError" -> Raise("TypeError")
           [] clang_check(h, given) = "True" -> Found(given)
           [] OTHER -> Found(0)

----------------------------------------------------------------------------
(* commands.py: the assembly commands.                                     *)
(*                                                                         *)
(* The text of an artifact is a sequence of runs of lines, a run being one *)
(* line and the number of times it is repeated in a row, and whether the   *)
(* last line ends in a newline.  The lines hold no line separator.         *)

\* MAX_ASSEMBLY_OUTPUT, in bytes.
MAX_ASSEMBLY_OUTPUT == 600000

LineRun(line, times) == [ line |-> line, times |-> times ]

Text(lines, eol) == [ lines |-> lines, eol |-> eol ]

\* The characters of the model's texts that UTF-8 encodes in two bytes; all
\* the others are ASCII.
TwoByteChars == { "ñ" }

Utf8Width(ch) == IF ch \in TwoByteChars THEN 2 ELSE 1

RECURSIVE Utf8Len(_)
\* len(s.encode('utf-8')) of a line.
Utf8Len(s) ==
    IF s = "" THEN 0 ELSE Utf8Width(CharAt(s, 1)) + Utf8Len(SubSeq(s, 2, Len(s)))

RECURSIVE LineCount(_)
LineCount(lines) ==
    IF lines = <<>> THEN 0 ELSE lines[1].times + LineCount(Tail(lines))

\* The newline characters of a text: one between two lines, one at the end.
Newlines(text) ==
    IF text.lines = <<>> THEN 0
    ELSE LineCount(text.lines) - 1 + (IF text.eol THEN 1 ELSE 0)

RECURSIVE CharsOfLines(_)
CharsOfLines(lines) ==
    IF lines = <<>> THEN 0
    ELSE lines[1].times * Len(lines[1].line) + CharsOfLines(Tail(lines))

RECURSIVE BytesOfLines(_)
BytesOfLines(lines) ==
    IF lines = <<>> THEN 0
    ELSE lines[1].times * Utf8Len(lines[1].line) + BytesOfLines(Tail(lines))

\* len(text)
str_len(text) == CharsOfLines(text.lines) + Newlines(text)

\* len(text.encode('utf-8'))
encoded_len(text) == BytesOfLines(text.lines) + Newlines(text)

\* `len(assembly.encode('utf-8')) > MAX_ASSEMBLY_OUTPUT`
too_long_in_characters(assembly) == str_len(assembly) > MAX_ASSEMBLY_OUTPUT
too_long(assembly) == encoded_len(assembly) > MAX_ASSEMBLY_OUTPUT

TooLongMessage ==
    Text(<< LineRun("Generated assembly was too long and wasn't stored", 1) >>, FALSE)

ElisionMarker == "# [...] omitted"

RECURSIVE Repeated(_, _)
\* The lines of `some`, `times` times over.
Repeated(some, times) ==
    IF times = 0 THEN <<>> ELSE some \o Repeated(some, times - 1)

\* The loop `for line in raw.splitlines()` of
\* AssemblyCPUCommand._extract_assembly: `filtered` after the lines of
\* `rest`, entered with `keep` and `filtered`.
RECURSIVE filter_loop_keep_stays(_, _, _)
filter_loop_keep_stays(rest, keep, filtered) ==
    IF rest = <<>> THEN filtered
    ELSE IF ~keep /\ startswith(rest[1].line, ".quad")
    THEN filter_loop_keep_stays(Tail(rest), keep, filtered)
    ELSE IF startswith(rest[1].line, "fatbinData:")
    THEN filter_loop_keep_stays(Tail(rest), FALSE,
             filtered \o Repeated(<< LineRun(rest[1].line, 1), LineRun(ElisionMarker, 1) >>,
                                  rest[1].times))
    ELSE filter_loop_keep_stays(Tail(rest), keep, Append(filtered, rest[1]))

RECURSIVE filter_loop(_, _, _)
filter_loop(rest, keep, filtered) ==
    IF rest = <<>> THEN filtered
    ELSE IF ~keep /\ startswith(rest[1].line, ".quad")
    THEN filter_loop(Tail(rest), keep, filtered)
    ELSE IF startswith(rest[1].line, "fatbinData:")
    THEN filter_loop(Tail(rest), FALSE,
             filtered \o Repeated(<< LineRun(rest[1].line, 1), LineRun(ElisionMarker, 1) >>,
                                  rest[1].times))
    ELSE filter_loop(Tail(rest), TRUE, Append(filtered, rest[1]))

\* _extract_assembly of command c on the artifact `raw`: the filtered lines
\* joined by newlines for `assembly` on a gpu exercise, the text as it is
\* otherwise (for assembly-sass the text is what nvdisasm prints).
extract_assembly(c, gpu, raw) ==
    IF c = "assembly" /\ gpu
    THEN Text(filter_loop(raw.lines, TRUE, <<>>), FALSE)
    ELSE raw

----------------------------------------------------------------------------
(* compiler.py: probing a compiler program.                                *)
(*                                                                         *)
(* The programs of the machine are a function from the program's name to   *)
(* how a probe of it ends; a name outside its domain is no program.        *)

MIN_GCC == 8
MIN_CLANG == 6

GCC_BINARIES ==
    << "g++", "g++-8", "g++-9", "g++-10", "g++-11", "g++-12", "g++-13", "g++-14",
       "g++-15" >>

CLANG_BINARIES ==
    << "clang++", "clang++-6", "clang++-7", "clang++-8", "clang++-9", "clang++-10",
       "clang++-11", "clang++-12", "clang++-13", "clang++-14", "clang++-15",
       "clang++-16", "clang++-17", "clang++-18", "clang++-19", "clang++-20" >>

\* subprocess.run(args, timeout=10, ...) of a probe of `program`: the
\* completed process, or the exception subprocess.run raises.
run(progs, program) ==
    IF program \notin DOMAIN progs THEN Raise("FileNotFoundError")
    ELSE IF progs[program].k # "exit" THEN Raise(progs[program].k)
    ELSE [ k |-> "completed", returncode |-> progs[program].returncode,
           stdout |-> progs[program].stdout ]

\* The characters \w matches (of the ASCII ones).
WordChars == "abcdefghijklmnopqrstuvwxyzABCDEFGHIJKLMNOPQRSTUVWXYZ0123456789_"

WordCharSet == { CharAt(WordChars, j) : j \in 1..Len(WordChars) }

IsWord(ch) == ch \in WordCharSet

RECURSIVE WordRun(_, _)
\* How many characters of s from index j on are word characters.
WordRun(s, j) ==
    IF j > Len(s) \/ ~IsWord(CharAt(s, j)) THEN 0 ELSE 1 + WordRun(s, j + 1)

\* re.match('^#define (\\w+) (.*)$', line) on a line without a newline:
\* << group(1), group(2) >>, or NoMatch for None.
NoMatch == <<>>

match_define(line) ==
    LET n == WordRun(line, 9)
    IN  IF startswith(line, "#define ") /\ n > 0 /\ Len(line) >= 9 + n
           /\ CharAt(line, 9 + n) = " "
        THEN << SubSeq(line, 9, 8 + n), SubSeq(line, 10 + n, Len(line)) >>
        ELSE NoMatch

\* The dict `macros` built from the lines of the probe's stdout is looked up
\* line by line: a later #define of a name replaces an earlier one, so
\* macros[nm] is the value of the last line that defines nm.
Missing == [ k |-> "missing" ]

RECURSIVE macro_before(_, _, _)
\* macros[nm] with only the first j lines read, or Missing; `match` is the
\* match of line j.
macro_at(lines, nm, j, match) ==
    IF match # NoMatch /\ match[1] = nm
    THEN [ k |-> "value", v |-> match[2] ]
    ELSE macro_before(lines, nm, j - 1)

macro_before(lines, nm, j) ==
    IF j = 0 THEN Missing ELSE macro_at(lines, nm, j, match_define(lines[j]))

\* macros.get(nm), with Missing for None
macro(lines, nm) == macro_before(lines, nm, Len(lines))

\* int(s) for the numerals that occur in the probes of the model: optional
\* whitespace around an optionally signed string of digits.  Anything else
\* there is no numeral, and int raises ValueError.
int_of_stripped(t) ==
    IF t # "" /\ CharAt(t, 1) = "-"
    THEN (IF AllDigits(SubSeq(t, 2, Len(t)))
          THEN PyNum(0 - Decimal(SubSeq(t, 2, Len(t)), 0)) ELSE Raise("ValueError"))
    ELSE IF t # "" /\ CharAt(t, 1) = "+"
    THEN (IF AllDigits(SubSeq(t, 2, Len(t)))
          THEN PyNum(Decimal(SubSeq(t, 2, Len(t)), 0)) ELSE Raise("ValueError"))
    ELSE IF AllDigits(t) THEN PyNum(Decimal(t, 0)) ELSE Raise("ValueError")

int(s) == int_of_stripped(strip(s))

\* int(macros[nm]) where macros.get(nm) is m: KeyError for a name that macros
\* does not hold.
int_item(m) == IF m = Missing THEN Raise("KeyError") ELSE int(m.v)

\* (a, b, c) of three evaluated items: the tuple, or the first exception of
\* the evaluation from left to right.
tuple_of(a, b, c) ==
    CASE a.k = "raise" -> a
      [] a.k # "raise" /\ b.k = "raise" -> b
      [] a.k # "raise" /\ b.k # "raise" /\ c.k = "raise" -> c
      [] OTHER -> [ k |-> "tuple", v |-> << a.v, b.v, c.v >> ]

\* (int(macros[a]), int(macros[b]), int(macros[c]))
int_tuple(lines, a, b, c) ==
    tuple_of(int_item(macro(lines, a)), int_item(macro(lines, b)),
             int_item(macro(lines, c)))

\* What __get_version returns: the version (NoVersion for None) and, for
\* clang, `apple`.
Probed(version, apple) == [ k |-> "return", version |-> version, apple |-> apple ]

\* `try: return (int(...), int(...), int(...)) except TypeError: pass`, with
\* `return None` after it.
version_or_none(version, apple) ==
    IF version.k = "raise"
    THEN (IF version.exc = "TypeError" THEN Probed(NoVersion, "None") ELSE version)
    ELSE Probed(version.v, apple)

\* GccCompiler.__get_version from the lines of the probe's stdout on.
gcc_version_of(lines) ==
    IF macro(lines, "__clang__") = Missing /\ macro(lines, "_OPENMP") # Missing
    THEN version_or_none(
             int_tuple(lines, "__GNUC__", "__GNUC_MINOR__", "__GNUC_PATCHLEVEL__"),
             "None")
    ELSE Probed(NoVersion, "None")

\* GccCompiler.__get_version(program), `output` being what subprocess.run
\* returns or raises.
gcc_get_version_of(progs, sys, mach, program, output) ==
    CASE output.k = "raise"
               /\ output.exc \in { "FileNotFoundError", "AssertionError", "PermissionError" } ->
               Probed(NoVersion, "None")
          [] output.k = "raise"
               /\ output.exc \notin { "FileNotFoundError", "AssertionError", "PermissionError" } ->
               output
          \* `assert` on the sanitizer probe of Apple silicon
          [] output.k # "raise" /\ sys = "Darwin" /\ mach = "arm64"
               /\ progs[program].sanitizers # 0 ->
               Probed(NoVersion, "None")
          [] OTHER ->
               IF output.returncode = 0
               THEN gcc_version_of(split(output.stdout, "\n"))
               ELSE Probed(NoVersion, "None")

gcc_get_version(progs, sys, mach, program) ==
    gcc_get_version_of(progs, sys, mach, program, run(progs, program))

RECURSIVE Contains(_, _)
\* `sub in s`
Contains(s, sub) ==
    IF Len(s) < Len(sub) THEN FALSE
    ELSE startswith(s, sub) \/ Contains(SubSeq(s, 2, Len(s)), sub)

\* `True if 'Apple' in macros['__VERSION__'] else False`, None where that
\* raises; `version` is macros.get('__VERSION__').
apple_of(version) ==
    IF version = Missing THEN "None"
    ELSE IF Contains(version.v, "Apple") THEN "True" ELSE "False"

\* ClangCompiler.__get_version from the lines of the probe's stdout on.
clang_version_of(lines) ==
    IF macro(lines, "__clang__") # Missing /\ macro(lines, "_OPENMP") # Missing
    THEN version_or_none(
             int_tuple(lines, "__clang_major__", "__clang_minor__", "__clang_patchlevel__"),
             apple_of(macro(lines, "__VERSION__")))
    ELSE Probed(NoVersion, "None")

\* ClangCompiler.__get_version(program), `output` being what subprocess.run
\* returns or raises.
clang_get_version_of(output) ==
    CASE output.k = "raise"
               /\ output.exc \in { "FileNotFoundError", "PermissionError" } ->
               Probed(NoVersion, "None")
          [] output.k = "raise"
               /\ output.exc \notin { "FileNotFoundError", "PermissionError" } ->
               output
          [] OTHER ->
               IF output.returncode = 0
               THEN clang_version_of(split(output.stdout, "\n"))
               ELSE Probed(NoVersion, "None")

clang_get_version(progs, sys, mach, program) ==
    clang_get_version_of(run(progs, program))

\* GccCompiler(program) and ClangCompiler(program) with the probe of the
\* constructor: the object constructed, or the exception the probe raises.
Constructed(c) == [ k |-> "object", v |-> c ]

gcc_of_probe(program, probe) ==
    IF probe.k = "raise" THEN probe
    ELSE Constructed(GccCompiler(program, probe.version))

new_GccCompiler(progs, sys, mach, program) ==
    gcc_of_probe(program, gcc_get_version(progs, sys, mach, program))

clang_of_probe(program, sys, mach, probe) ==
    IF probe.k = "raise" THEN probe
    ELSE Constructed(ClangCompiler(program, sys, mach, probe.version, probe.apple))

new_ClangCompiler(progs, sys, mach, program) ==
    clang_of_probe(program, sys, mach, clang_get_version(progs, sys, mach, program))

\* a < b on version tuples of three numbers.
TupleLess(a, b) ==
    \/ a[1] < b[1]
    \/ a[1] = b[1] /\ a[2] < b[2]
    \/ a[1] = b[1] /\ a[2] = b[2] /\ a[3] < b[3]

\* GccCompiler(program) or ClangCompiler(program), as the search asks.
new_compiler(progs, sys, mach, cls, program) ==
    IF cls = "GccCompiler"
    THEN new_GccCompiler(progs, sys, mach, program)
    ELSE new_ClangCompiler(progs, sys, mach, program)

\* `best` after the body of the loop of a search: `compiler` replaces `best`
\* (Constructed, or PyNone) where it has a version, of a major number that
\* is not below `least`, and `best` is None or has a smaller version.
better(least, best, compiler) ==
    IF /\ compiler.v.version # NoVersion
       /\ compiler.v.version[1] >= least
       /\ (best = PyNone \/ TupleLess(best.v.version, compiler.v.version))
    THEN compiler
    ELSE best

\* The `for program in ...` loops of find_gcc_compiler and
\* find_clang_compiler: `best` after the programs of `rest`, or the exception
\* of a constructor; `compiler` is what the constructor gives for the first
\* program of `rest`.
RECURSIVE find_loop(_, _, _, _, _, _, _)
find_step(progs, sys, mach, cls, least, rest, best, compiler) ==
    IF compiler.k = "raise" THEN compiler
    ELSE find_loop(progs, sys, mach, cls, least, Tail(rest), better(least, best, compiler))

find_loop(progs, sys, mach, cls, least, rest, best) ==
    IF rest = <<>> THEN best
    ELSE find_step(progs, sys, mach, cls, least, rest, best,
                   new_compiler(progs, sys, mach, cls, rest[1]))

find_gcc_compiler(progs, sys, mach) ==
    find_loop(progs, sys, mach, "GccCompiler", MIN_GCC, GCC_BINARIES, PyNone)

find_clang_compiler(progs, sys, mach) ==
    find_loop(progs, sys, mach, "ClangCompiler", MIN_CLANG,
              CLANG_BINARIES \o GCC_BINARIES, PyNone)

\* sys.exit(message)
SysExit(message) == [ k |-> "exit", message |-> message ]

\* Compiler.is_valid() of a Compiler whose program is `program`, with the
\* default arguments of the probe.
is_valid_timeout_is_false(progs, program) ==
    LET done == run(progs, program)
    IN  IF done.k = "raise" THEN PyBool(FALSE) ELSE PyBool(done.returncode = 0)

is_valid(progs, program) ==
    LET done == run(progs, program)
    IN  CASE done.k = "raise" /\ done.exc = "AssertionError" -> PyBool(FALSE)
          [] done.k = "raise" /\ done.exc = "FileNotFoundError" ->
               SysExit("Program not found")
          [] done.k = "raise" /\ done.exc = "PermissionError" ->
               SysExit("Unable to execute")
          [] done.k = "raise" /\ done.exc = "TimeoutExpired" ->
               SysExit("Testing compiler took too much time, killed the process.")
          [] OTHER -> PyBool(done.returncode = 0)

----------------------------------------------------------------------------
(* The Compiler values as a state machine: one object is constructed, then *)
(* any mutator is called on any object reachable so far.                   *)

\* The environments and constructor calls a run starts from:
\* [system, machine, argv1, the object constructed].
CompilerSetups ==
    { << "Linux", "x86_64", "test-plain", GccCompiler("g++", <<12, 2, 0>>) >>,
      << "Linux", "x86_64", "test-plain", NvccCompiler("nvcc") >>,
      << "Linux", "x86_64", "test-plain",
         ClangCompiler("clang++", "Linux", "x86_64", <<14, 0, 0>>, "False") >>,
      << "Darwin", "x86_64", "assembly",
         ClangCompiler("clang++", "Darwin", "x86_64", <<14, 0, 0>>, "True") >>,
      << "Darwin", "arm64", "test-plain",
         ClangCompiler("clang++-17", "Darwin", "arm64", <<17, 0, 0>>, "False") >> }

SourceArgs == { "tester.cc", "source.cc" }
LibArgs == { "m", "-lpng" }
FlagArgs == { << "-O3" >>, << "-Xcompiler", "-rdynamic" >> }
DefArgs == { << "NDEBUG", "None" >>, << "_GLIBCXX_SANITIZE_VECTOR", "1" >> }
OutFiles == { "a.out", "grader" }
\* stdout of `brew --prefix`, stripped.
BrewDirs == { "/opt/homebrew", "" }

NoCall == [ n |-> 0, op |-> "none" ]
NoFiles == [ p \in {} |-> "" ]

\* No exec is running.
NoExec ==
    /\ cmd = "none"
    /\ config = <<>>
    /\ args = <<>>
    /\ pc = "idle"
    /\ used = 0
    /\ tests = <<>>
    /\ idx = 0
    /\ events = <<>>
    /\ ret = "pending"

InitCompiler ==
    /\ \E s \in CompilerSetups :
          /\ system = s[1]
          /\ machine = s[2]
          /\ argv1 = s[3]
          /\ heap = << s[4] >>
    /\ hist = << <<>> >>
    /\ last = NoCall
    /\ status = "running"
    /\ files = NoFiles
    /\ NoExec

\* The bookkeeping of a mutator call `op` on object i whose outcome is res:
\* the call is appended to the history of the object it returns.
Returned(op, i, a, res) ==
    /\ heap' = res.heap
    /\ hist' = IF res.ret = i
               THEN [hist EXCEPT ![i] = Append(@, [op |-> op, args |-> a])]
               ELSE Append(hist, Append(hist[i], [op |-> op, args |-> a]))
    /\ last' = [ n |-> last.n + 1, op |-> op, recv |-> i, args |-> a, ret |-> res.ret ]
    /\ UNCHANGED <<envVars, execVars, status>>

\* sys.exit(message) or an exception that nothing catches.
Ended(op, i, how) ==
    /\ status' = how
    /\ last' = [ n |-> last.n + 1, op |-> op, recv |-> i, args |-> <<>>, ret |-> 0 ]
    /\ UNCHANGED <<envVars, execVars, heap, hist>>

\* Calls are made on the constructed object or on the value returned last.
CanCall(i) ==
    /\ status = "running"
    /\ i \in { 1, Len(heap) }
    /\ last.n < MaxCalls

AddSource(i) ==
    /\ CanCall(i)
    /\ \E f \in SourceArgs : Returned("add_source", i, << f >>, add_source(heap, i, f))

AddLibrary(i) ==
    /\ CanCall(i)
    /\ \E l \in LibArgs : Returned("add_library", i, << l >>, add_library(heap, i, l))

AddFlag(i) ==
    /\ CanCall(i)
    /\ \E fs \in FlagArgs : Returned("add_flag", i, fs, add_flag(heap, i, fs))

AddDefinition(i) ==
    /\ CanCall(i)
    /\ \E d \in DefArgs :
          Returned("add_definition", i, d, add_definition(heap, i, d[1], d[2]))

AddOmpFlagsGcc(i) ==
    /\ CanCall(i)
    /\ heap[i].cls = "GccCompiler"
    /\ Returned("add_omp_flags", i, <<>>, Compiler_add_omp_flags(heap, i))

AddOmpFlagsNvcc(i) ==
    /\ CanCall(i)
    /\ heap[i].cls = "NvccCompiler"
    /\ Returned("add_omp_flags", i, <<>>, NvccCompiler_add_omp_flags(heap, i))

\* ClangCompiler.add_omp_flags.  On Darwin `brew --prefix` is run first
\* (a missing brew ends the process, its timeout is caught by nothing), then
\* `brew list libomp` (a nonzero exit ends the process, a timeout is only
\* printed).
AddOmpFlagsClang(i) ==
    /\ CanCall(i)
    /\ heap[i].cls = "ClangCompiler"
    /\ IF system = "Darwin"
       THEN \E brew \in { "ok", "FileNotFoundError", "TimeoutExpired" } :
              CASE brew = "FileNotFoundError" -> Ended("add_omp_flags", i, "exit")
                [] brew = "TimeoutExpired"    -> Ended("add_omp_flags", i, "raise")
                [] OTHER ->
                     \E brew_dir \in BrewDirs, libomp \in { "0", "1", "TimeoutExpired" } :
                        IF libomp = "1"
                        THEN Ended("add_omp_flags", i, "exit")
                        ELSE Returned("add_omp_flags", i, << brew_dir >>,
                                      ClangCompiler_add_omp_flags(heap, i, system,
                                                                  argv1, brew_dir))
       ELSE Returned("add_omp_flags", i, <<>>,
                     ClangCompiler_add_omp_flags(heap, i, system, argv1, ""))

CompileCommand(i) ==
    /\ status = "running"
    /\ i = Len(heap)
    /\ \E out \in OutFiles :
          last' = [ n |-> last.n, op |-> "compile_command", recv |-> i,
                    args |-> << out >>, ret |-> compile_command(heap[i], out) ]
    /\ UNCHANGED <<envVars, execVars, heap, hist, status>>

NextCompiler ==
    \E i \in 1..(MaxCalls + 1) :
        \/ AddSource(i)
        \/ AddLibrary(i)
        \/ AddFlag(i)
        \/ AddDefinition(i)
        \/ AddOmpFlagsGcc(i)
        \/ AddOmpFlagsNvcc(i)
        \/ AddOmpFlagsClang(i)
        \/ CompileCommand(i)

SpecCompiler == InitCompiler /\ [][NextCompiler]_vars

----------------------------------------------------------------------------
(* The timeout policy functions applied to the files of a test directory.  *)

\* Test files in one call of timeout_for_test_set.
MaxFiles == 2

TestPaths == { "tests/a", "tests/b" }

\* What a test file may hold.
TestTexts ==
    { "timeout 5\n1 2 3\n",
      "timeout 2",
      "timeout 3 medium\n",
      "timeout 0\n",
      "timeout -5\n",
      "1000 100\n",
      "Timeout 5\n",
      "",
      "timeout\n",
      "timeout",
      "timeout x\n",
      "timeout  5\n" }

\* exec's and query_timeout's `timeout` and `no_timeout` arguments.
Overrides == { PyNone, PyNum(0), PyNum(7), PyNum(0 - 1) }
NoTimeouts == { PyNone, PyBool(FALSE), PyBool(TRUE) }
\* extra_timeout: absent, CompileAndRunCommandBase's 0.0, TestMemcheckCommandBase's 1.0.
ExtraTimeouts == { PyNum(0), PyNum(1) }

SeqsUpTo(S, n) == UNION { [1..m -> S] : m \in 0..n }

InitTimeout ==
    /\ files \in [TestPaths -> TestTexts]
    /\ last = NoCall
    /\ status = "running"
    /\ system = "Linux" /\ machine = "x86_64" /\ argv1 = "test-plain"
    /\ heap = <<>> /\ hist = <<>>
    /\ NoExec

\* One call of a policy function per run: the functions keep no state.
Called(op, a, r) ==
    /\ last = NoCall
    /\ last' = [ n |-> 1, op |-> op, args |-> a, ret |-> r ]
    /\ UNCHANGED <<envVars, objVars, execVars, status>>

ParseTimeout ==
    \E file \in DOMAIN files, timeout \in Overrides, no_timeout \in NoTimeouts,
       extra_timeout \in ExtraTimeouts \cup { PyNone } :
        Called("parse_timeout", << file, timeout, no_timeout, extra_timeout >>,
               parse_timeout(files, file, timeout, no_timeout, extra_timeout))

TimeoutForTestSet ==
    \E fl \in SeqsUpTo(DOMAIN files, MaxFiles), timeout \in Overrides,
       no_timeout \in NoTimeouts, extra_timeout \in ExtraTimeouts :
        Called("timeout_for_test_set", << fl, timeout, no_timeout, extra_timeout >>,
               timeout_for_test_set(files, fl, timeout, no_timeout, extra_timeout))

CompileTimeout ==
    \E timeout \in Overrides, no_timeout \in NoTimeouts :
        Called("compile_timeout", << timeout, no_timeout >>,
               compile_timeout(timeout, no_timeout))

NextTimeout == ParseTimeout \/ TimeoutForTestSet \/ CompileTimeout

SpecTimeout == InitTimeout /\ [][NextTimeout]_vars

----------------------------------------------------------------------------
(* The probes applied to the programs of a machine: the constructors of    *)
(* GccCompiler and ClangCompiler, is_valid, and the two searches.          *)

\* Programs installed on the machine in one run.
MaxInstalled == 2

ProgramPool == { "g++", "g++-12", "clang++" }

GccMacros(major, minor) ==
    "#define __GNUC__ " \o major \o "\n#define __GNUC_MINOR__ " \o minor
        \o "\n#define __GNUC_PATCHLEVEL__ 0\n"

ClangMacros(major, vendor) ==
    "#define __clang__ 1\n#define __clang_major__ " \o major
        \o "\n#define __clang_minor__ 0\n#define __clang_patchlevel__ 6\n"
        \o "#define __VERSION__ \"" \o vendor \o " Clang\"\n"
        \o GccMacros("4", "2")

OpenMP == "#define _OPENMP 201511\n"

Exits(returncode, stdout, sanitizers) ==
    [ k |-> "exit", returncode |-> returncode, stdout |-> stdout,
      sanitizers |-> sanitizers ]

\* How the probe of an installed program may end: it prints its macros, it
\* fails, it may not be executed, or it outlives the 10 s of the probe.
\* `sanitizers` is the return code of the sanitizer link probe.
ProbeBehaviours ==
    { Exits(0, GccMacros("12", "2") \o OpenMP, 0),
      Exits(0, GccMacros("9", "4") \o OpenMP, 1),
      Exits(0, GccMacros("12", "2"), 0),
      Exits(0, GccMacros("12", "x") \o OpenMP, 0),
      Exits(0, OpenMP, 0),
      Exits(0, ClangMacros("14", "Debian") \o OpenMP, 0),
      Exits(0, ClangMacros("15", "Apple LLVM") \o OpenMP, 0),
      Exits(1, "", 1),
      [ k |-> "PermissionError", returncode |-> 0, stdout |-> "", sanitizers |-> 0 ],
      [ k |-> "TimeoutExpired", returncode |-> 0, stdout |-> "", sanitizers |-> 0 ] }

Machines ==
    { [ p \in S |-> f[p] ] :
        S \in { T \in SUBSET ProgramPool : Cardinality(T) <= MaxInstalled },
        f \in [ProgramPool -> ProbeBehaviours] }

Platforms == { << "Linux", "x86_64" >>, << "Darwin", "arm64" >> }

InitProbe ==
    /\ files \in Machines
    /\ \E pf \in Platforms : system = pf[1] /\ machine = pf[2]
    /\ argv1 = "test-plain"
    /\ last = NoCall
    /\ status = "running"
    /\ heap = <<>> /\ hist = <<>>
    /\ NoExec

NewGcc ==
    \E program \in ProgramPool :
        Called("GccCompiler", << program >>,
               new_GccCompiler(files, system, machine, program))

NewClang ==
    \E program \in ProgramPool :
        Called("ClangCompiler", << program >>,
               new_ClangCompiler(files, system, machine, program))

IsValid ==
    \E program \in ProgramPool :
        Called("is_valid", << program >>, is_valid(files, program))

FindGcc == Called("find_gcc_compiler", <<>>, find_gcc_compiler(files, system, machine))

FindClang == Called("find_clang_compiler", <<>>, find_clang_compiler(files, system, machine))

NextProbe == NewGcc \/ NewClang \/ IsValid \/ FindGcc \/ FindClang

SpecProbe == InitProbe /\ [][NextProbe]_vars

----------------------------------------------------------------------------
(* One exec of one command: the title, the compiler, the tests, the single *)
(* compilation, then the runs, the extraction or the demo.                 *)

\* Test files of the exercise directory in one run.
MaxTests == 2

\* The files an exercise directory may hold, with what they hold.
ExerciseFiles ==
    [ p \in { "tests/01_small", "tests/02_medium", "tests/03_memcheck_small",
              "tests/04_large", "benchmarks/1" } |->
        CASE p = "tests/01_small"          -> "timeout 1\n1 2 3\n"
          [] p = "tests/02_medium"         -> "timeout 2 medium\n"
          [] p = "tests/03_memcheck_small" -> "1000 100\n"
          [] p = "tests/04_large"          -> "timeout x\n"
          [] p = "benchmarks/1"            -> "timeout 5\n" ]

FileSystems ==
    { [ p \in S |-> ExerciseFiles[p] ] :
        S \in { T \in SUBSET DOMAIN ExerciseFiles : Cardinality(T) <= MaxTests } }

\* The `tests` argument of exec.
UserTests ==
    { <<>>, << "tests/*medium*", "tests/01_small" >>, << "nothing*" >>,
      << "tests/01_small", "tests/01_small" >> }

\* The `timeout` and `no_timeout` arguments of exec.
TimeOptions ==
    { << PyNone, PyBool(FALSE) >>, << PyNum(7), PyBool(FALSE) >>,
      << PyNone, PyBool(TRUE) >>, << PyNum(7), PyBool(TRUE) >> }

\* The compilers of a machine: the objects, the `compiler` argument of exec
\* (0: None), and what Config.find_compiler(), find_gcc_compiler() and
\* find_clang_compiler() return (0: None).
Toolchains ==
    { [ heap |-> << GccCompiler("g++", <<12, 2, 0>>) >>,
        given |-> 0, found |-> 1, found_gcc |-> 1, found_clang |-> 0 ],
      [ heap |-> << NvccCompiler("nvcc") >>,
        given |-> 1, found |-> 1, found_gcc |-> 0, found_clang |-> 0 ],
      [ heap |-> << GccCompiler("g++", <<11, 4, 0>>),
                    ClangCompiler("clang++", "Linux", "x86_64", <<14, 0, 0>>, "False") >>,
        given |-> 0, found |-> 1, found_gcc |-> 1, found_clang |-> 2 ],
      [ heap |-> << GccCompiler("g++", <<11, 4, 0>>) >>,
        given |-> 1, found |-> 1, found_gcc |-> 1, found_clang |-> 0 ],
      [ heap |-> << GccCompiler("g++", <<11, 4, 0>>),
                    ClangCompiler("clang++", "Linux", "x86_64", <<7, 0, 1>>, "False") >>,
        given |-> 0, found |-> 1, found_gcc |-> 1, found_clang |-> 2 ],
      [ heap |-> << ClangCompiler("clang++-7", "Linux", "x86_64", <<7, 0, 1>>, "False"),
                    GccCompiler("g++", <<12, 2, 0>>) >>,
        given |-> 1, found |-> 2, found_gcc |-> 2, found_clang |-> 1 ],
      [ heap |-> << GccCompiler("/opt/gcc-11/bin/g++", <<11, 4, 0>>) >>,
        given |-> 1, found |-> 0, found_gcc |-> 0, found_clang |-> 0 ],
      [ heap |-> << GccCompiler("g++-7", NoVersion), GccCompiler("g++", <<12, 2, 0>>) >>,
        given |-> 1, found |-> 2, found_gcc |-> 2, found_clang |-> 0 ],
      [ heap |-> << GccCompiler("/opt/gcc-13/bin/g++", <<13, 1, 0>>) >>,
        given |-> 1, found |-> 0, found_gcc |-> 0, found_clang |-> 0 ],
      [ heap |-> << GccCompiler("g++-12", <<12, 2, 0>>),
                    ClangCompiler("clang++", "Linux", "x86_64", <<14, 0, 0>>, "False") >>,
        given |-> 0, found |-> 2, found_gcc |-> 1, found_clang |-> 2 ],
      [ heap |-> << ClangCompiler("clang++-14", "Linux", "x86_64", <<14, 0, 0>>, "False"),
                    GccCompiler("g++", <<12, 2, 0>>) >>,
        given |-> 1, found |-> 2, found_gcc |-> 2, found_clang |-> 0 ],
      [ heap |-> <<>>,
        given |-> 0, found |-> 0, found_gcc |-> 0, found_clang |-> 0 ] }

\* An exec call about to start. What a command never reads is left at one
\* value: on_remote outside test-uninit, demo outside the demo commands, the
\* tests and the test files outside the commands that run tests.
InitExec ==
    /\ cmd \in Commands
    /\ \E tc \in Toolchains, ignore_errors \in BOOLEAN, on_remote \in BOOLEAN,
          demo \in BOOLEAN, gpu \in BOOLEAN, user_tests \in UserTests, t \in TimeOptions :
          /\ on_remote => cmd = "test-uninit"
          /\ ~demo => cmd \in DemoCommands
          /\ gpu => cmd = "assembly"
          /\ user_tests # <<>> => cmd \in RunManyCommands
          /\ heap = tc.heap
          /\ config = [ ignore_errors |-> ignore_errors, on_remote |-> on_remote,
                        demo |-> demo, gpu |-> gpu, found |-> tc.found,
                        found_gcc |-> tc.found_gcc, found_clang |-> tc.found_clang ]
          /\ args = [ compiler |-> tc.given, tests |-> user_tests,
                      timeout |-> t[1], no_timeout |-> t[2] ]
    /\ IF cmd \in RunManyCommands THEN files \in FileSystems ELSE files = NoFiles
    /\ system = "Linux" /\ machine = "x86_64" /\ argv1 = cmd
    /\ hist = <<>>
    /\ last = NoCall
    /\ status = "running"
    /\ pc = "start"
    /\ used = 0
    /\ tests = <<>>
    /\ idx = 0
    /\ events = <<>>
    /\ ret = "pending"

\* What the Reporter and the child processes get to see, in order.
Ev(e, a, b) == [ e |-> e, a |-> a, b |-> b ]

\* reporter.log(text, kind)
Log(kind, text) == Ev("log", kind, text)

\* What no step of exec assigns.
Frame == UNCHANGED << envVars, hist, last, cmd, config, args >>

\* exec returns r, having reported evs.
Return(r, evs) ==
    /\ pc' = "done"
    /\ ret' = r
    /\ events' = events \o evs
    /\ UNCHANGED << status, heap, used, tests, idx >>

\* exec ends in sys.exit ("exit") or in an exception nothing catches ("raise").
Abort(how, evs) ==
    /\ pc' = "done"
    /\ status' = how
    /\ events' = events \o evs
    /\ UNCHANGED << ret, heap, used, tests, idx >>

\* Command._find_compiler: the reference to use, 0 where it calls sys.exit.
find_compiler(given, found) == IF given = 0 THEN found ELSE given

\* `super()._find_compiler(None)`, the first statement of
\* TestUninitCommand._find_compiler, called with the compiler `given` to
\* exec: the reference it locates, 0 where it calls sys.exit.
uninit_generic_check_of_given(given, found) == find_compiler(given, found)
uninit_generic_check(given, found) == find_compiler(0, found)

\* rep.compilation(compiler).compile(out_file, timeout) is started on the
\* Compiler value r with the command's sources added.
StartCompile(r, group, evs, found_tests) ==
    LET withSources ==
            IF Len(Sources(cmd)) = 1
            THEN with_source(r, Sources(cmd)[1])
            ELSE with_source(with_source(r, Sources(cmd)[1]), Sources(cmd)[2])
        deadline == CompileDeadline(cmd, args.timeout, args.no_timeout)
    IN  /\ heap' = withSources.heap
        /\ used' = withSources.ret
        /\ tests' = found_tests
        /\ idx' = 1
        /\ events' = events \o evs \o
               << group,
                  Ev("compile",
                     compile_command(withSources.heap[withSources.ret], OutFile(cmd)),
                     deadline) >>
        /\ pc' = "compile"
        /\ UNCHANGED << status, ret >>

\* TestCommandBase._exec_rest and BenchmarkCommandBase.exec from the
\* preparation of the compiler up to the start of the compilation.
exec_rest(compiler, group_kind, evs) ==
    LET prepared == prepare_compiler(cmd, Config_common_flags(Ref(heap, compiler)))
        collected == collect_tests(cmd, files, args.tests)
    IN  IF collected.k = "exit"
        THEN Abort("exit", evs \o << Ev("exit", collected.about, collected.names) >>)
        ELSE StartCompile(prepared, Ev(group_kind, cmd, collected.v), evs, collected.v)

\* TestCommandBase.exec
TestExec ==
    /\ pc = "start"
    /\ cmd \in TestCommands \ { "test-uninit" }
    /\ LET title == Log("title", cmd)
           compiler == find_compiler(args.compiler, config.found)
       IN  IF compiler = 0
           THEN Abort("exit", << title >>)
           ELSE exec_rest(compiler, "test_group", << title >>)
    /\ Frame

\* What TestUninitCommand.exec returns when _find_compiler returned None.
too_old_result_always_soft(on_remote, ignore_errors) == "True"
too_old_result(on_remote, ignore_errors) ==
    IF ~on_remote THEN "True"
    ELSE IF ignore_errors THEN "True" ELSE "False"

\* TestUninitCommand.exec
TestUninitExec ==
    /\ pc = "start"
    /\ cmd = "test-uninit"
    /\ LET title == Log("title", cmd)
           compiler_out == uninit_find_compiler(heap, args.compiler,
                                                config.found_gcc, config.found_clang)
           too_old == << title, Log("error", "too old"), Log("msg", "requires") >>
           located == uninit_generic_check(args.compiler, config.found)
       IN  CASE located = 0 -> Abort("exit", << title >>)
             [] located # 0 /\ compiler_out.k = "raise" ->
                  Abort("raise", << title >>)
             [] located # 0 /\ compiler_out = Found(0) ->
                  Return(too_old_result(config.on_remote, config.ignore_errors),
                         IF ~config.on_remote
                         THEN too_old \o << Log("msg", "install or remote") >>
                         ELSE too_old)
             [] OTHER -> exec_rest(compiler_out.v, "test_group", << title >>)
    /\ Frame

\* BenchmarkCommandBase.exec
BenchmarkExec ==
    /\ pc = "start"
    /\ cmd \in BenchmarkCommands
    /\ LET title == Log("title", cmd)
           compiler == find_compiler(args.compiler, config.found)
       IN  IF compiler = 0
           THEN Abort("exit", << title >>)
           ELSE exec_rest(compiler, "benchmark_group", << title >>)
    /\ Frame

\* AssemblyCommandBase.exec
AssemblyExec ==
    /\ pc = "start"
    /\ cmd \in AssemblyCommands
    /\ LET title == Log("title", "Compiling to assembly")
           compiler == find_compiler(args.compiler, config.found)
       IN  IF compiler = 0
           THEN Abort("exit", << title >>)
           ELSE StartCompile(
                    prepare_compiler(cmd, Config_common_flags(Ref(heap, compiler))),
                    Ev("analysis_group", cmd, <<>>), << title >>, <<>>)
    /\ Frame

\* CompileCommandBase.exec
CompileExec ==
    /\ pc = "start"
    /\ cmd \in CompileCommands
    /\ LET title == Log("title", cmd)
           compiler == find_compiler(args.compiler, config.found)
       IN  IF compiler = 0
           THEN Abort("exit", << title >>)
           ELSE StartCompile(
                    prepare_compiler(cmd, Config_common_flags(Ref(heap, compiler))),
                    Ev("analysis_group", "binary", <<>>), << title >>, <<>>)
    /\ Frame

\* DemoCommandBase.exec
DemoExec ==
    /\ pc = "start"
    /\ cmd \in DemoCommands
    /\ LET title == Log("title", "Compiling demo executable")
           compiler == find_compiler(args.compiler, config.found)
       IN  IF ~config.demo
           THEN Return("False", << Log("title", "no demo") >>)
           ELSE IF compiler = 0
           THEN Abort("exit", << title >>)
           ELSE StartCompile(Config_demo_flags(Ref(heap, compiler)),
                             Ev("test_group", "demo", << "" >>), << title >>, <<>>)
    /\ Frame

\* CompilerOutput.is_success
is_success_always(returncode) == TRUE
is_success(returncode) == returncode = 0

\* MAX_COMPILER_OUTPUT, in characters.
MAX_COMPILER_OUTPUT == 30000

CompilerOutput(stdout, stderr, returncode) ==
    [ k |-> "CompilerOutput", stdout |-> stdout, stderr |-> stderr,
      returncode |-> returncode ]

\* text[:MAX_COMPILER_OUTPUT]
Truncated(text) ==
    IF Len(text) > MAX_COMPILER_OUTPUT THEN SubSeq(text, 1, MAX_COMPILER_OUTPUT) ELSE text

\* The timeout Compiler.compile hands to subprocess.run: None for None and
\* for what is not finite.
subprocess_timeout(timeout) ==
    IF timeout = PyNone \/ timeout = PyInf THEN PyNone ELSE timeout

\* How the compiler process may end under subprocess.run: it exits with a
\* return code, it outlives a timeout that is not None, or it cannot be
\* started.
CompileOutcomes(deadline) ==
    { [ k |-> "exit", returncode |-> 0, stdout |-> "", stderr |-> "" ],
      [ k |-> "exit", returncode |-> 1, stdout |-> "",
        stderr |-> "cp.cc:1:1: error: expected unqualified-id" ],
      [ k |-> "FileNotFoundError", returncode |-> 0, stdout |-> "", stderr |-> "" ] }
    \cup (IF subprocess_timeout(deadline) # PyNone
          THEN { [ k |-> "TimeoutExpired", returncode |-> 0, stdout |-> "", stderr |-> "" ] }
          ELSE {})

\* Compiler.compile once the process has ended: the CompilerOutput returned,
\* or the exception that is not caught.
compile_propagates_timeout(child) ==
    IF child.k = "exit"
    THEN CompilerOutput(Truncated(child.stdout), Truncated(child.stderr), child.returncode)
    ELSE Raise(child.k)
compile(child) ==
    CASE child.k = "exit" ->
           CompilerOutput(Truncated(child.stdout), Truncated(child.stderr),
                          child.returncode)
      [] child.k = "TimeoutExpired" ->
           CompilerOutput("", "Compilation process took longer than the timeout, killed the process",
                          0 - 1)
      [] OTHER -> Raise(child.k)

\* Compiler.compile returns (or raises), and exec goes on from there.
CompilerExits ==
    /\ pc = "compile"
    /\ \E child \in CompileOutcomes(events[Len(events)].b) :
         LET ended == Ev("child", child.k, child.returncode)
             result == compile(child)
             output == Ev("compiled", result.returncode,
                          [ stdout |-> result.stdout, stderr |-> result.stderr,
                            is_success |-> is_success(result.returncode) ])
         IN  CASE result.k = "raise" -> Abort("raise", << ended >>)
               [] result.k # "raise" /\ ~is_success(result.returncode) ->
                    Return("False", << ended, output >>)
               [] result.k # "raise" /\ is_success(result.returncode)
                     /\ \/ cmd \in CompileCommands \cup { "compile-demo" }
                        \/ cmd \in RunManyCommands /\ tests = <<>> ->
                    Return("True", << ended, output >>)
               [] OTHER ->
                    /\ events' = events \o << ended, output >> \o
                           (IF cmd = "demo" THEN << Log("title", "Running demo") >> ELSE <<>>)
                    /\ pc' = CASE cmd \in AssemblyCommands -> "extract"
                               [] cmd = "demo" -> "demo"
                               [] OTHER -> "loop"
                    /\ UNCHANGED << status, ret, heap, used, tests, idx >>
    /\ Frame

\* `runner_output.errors or not runner_output.run_successful`
run_failed_errors_only(runner_output) == runner_output.errors
run_failed(runner_output) == runner_output.errors \/ ~runner_output.run_successful

\* `for test in tests`: the test of the iteration after idx - 1 iterations,
\* the number of the iteration after it, and whether it is the last one.
loop_test_backwards(ts, i) == ts[Len(ts) + 1 - i]
loop_test(ts, i) == ts[i]

loop_next_same(i) == i
loop_next(i) == i + 1

loop_ends_at_once(ts, i) == TRUE
loop_ends(ts, i) == i = Len(ts)

\* One iteration of `for test in tests`: the deadline is read from the test
\* file, the Runner runs the test, the result is reported.
RunTest ==
    /\ pc = "loop"
    /\ LET test == loop_test(tests, idx)
           deadline == parse_timeout(files, test, args.timeout, args.no_timeout,
                                     ExtraTimeout(cmd))
       IN  IF deadline.k = "raise"
           THEN Abort("raise", <<>>)
           ELSE \E errors \in BOOLEAN, run_successful \in BOOLEAN :
                  LET runner_output == [ errors |-> errors, run_successful |-> run_successful ]
                      reported == << Ev("run", test, deadline), Ev("result", test, runner_output) >>
                  IN  IF ~config.ignore_errors /\ run_failed(runner_output)
                      THEN Return("False", reported)
                      ELSE IF loop_ends(tests, idx)
                      THEN Return("True", reported)
                      ELSE /\ events' = events \o reported
                           /\ idx' = loop_next(idx)
                           /\ UNCHANGED << pc, status, ret, heap, used, tests >>
    /\ Frame

\* What the compiler (or nvdisasm) may have written: host assembly, CUDA host
\* assembly with embedded device code, and texts about the size limit.
Artifacts ==
    { Text(<< LineRun("main:", 1), LineRun("mov", 2), LineRun("ret", 1) >>, TRUE),
      Text(<< LineRun("main:", 1), LineRun(".quad 1", 1), LineRun("fatbinData:", 1),
              LineRun(".quad 2", 3), LineRun("mov", 1), LineRun(".quad 3", 1),
              LineRun("fatbinData:", 2), LineRun("ret", 1) >>, TRUE),
      Text(<< LineRun("fatbinData:", 1), LineRun(".quad 0", 100000) >>, TRUE),
      Text(<< LineRun("nop", 150000) >>, TRUE),
      Text(<< LineRun("nop", 150000), LineRun("", 1) >>, TRUE),
      Text(<< LineRun("ñop", 120001) >>, TRUE) }

\* _extract_assembly and rep.analyze: the artifact is read (by nvdisasm, which
\* may fail, for assembly-sass), cut down to the size limit and reported.
Extract ==
    /\ pc = "extract"
    /\ \E raw \in Artifacts :
         LET assembly == extract_assembly(cmd, config.gpu, raw)
             reported == IF too_long(assembly) THEN TooLongMessage ELSE assembly
         IN  \/ Return("True", << Ev("extract", raw, assembly),
                                  Ev("analyze", cmd, reported) >>)
             \/ /\ cmd = "assembly-sass"
                /\ Abort("raise", << Ev("extract", raw, <<>>) >>)   \* CalledProcessError
    /\ Frame

\* How the demo process may end under subprocess.check_output(cmd,
\* timeout=timeout): it exits with a return code, or it outlives a timeout
\* that is not None.
DemoOutcomes(timeout) ==
    { [ k |-> "exit", returncode |-> 0, output |-> "demo output" ],
      [ k |-> "exit", returncode |-> 1, output |-> "demo failed" ] }
    \cup (IF timeout # PyNone
          THEN { [ k |-> "TimeoutExpired", returncode |-> 0, output |-> "" ] }
          ELSE {})

\* RunDemoCommand.run_demo once the demo process has ended: what it returns
\* ("None" where the function ends without a return statement), or the
\* exception that is not caught.
run_demo(child) ==
    CASE child.k = "exit" /\ child.returncode = 0 -> [ k |-> "return", v |-> "True" ]
      [] child.k = "exit" /\ child.returncode # 0 -> [ k |-> "return", v |-> "None" ]
      [] OTHER -> Raise(child.k)

\* RunDemoCommand.run_demo: the demo is spawned and awaited.
RunDemo ==
    /\ pc = "demo"
    /\ \E child \in DemoOutcomes(args.timeout) :
         LET spawn == Ev("demo", args.tests, args.timeout)
             ended == Ev("demo_child", child.k, child.returncode)
             result == run_demo(child)
         IN  CASE result.k = "raise" -> Abort("raise", << spawn, ended >>)
               [] result.k # "raise" /\ result.v = "True" ->
                    Return("True", << spawn, ended, Ev("demo_post", child.output, <<>>) >>)
               [] OTHER ->
                    Return(result.v,
                           << spawn, ended,
                              Log("error", "demo returned with error code"),
                              Log("heading", "Output was:"),
                              Log("output", child.output) >>)
    /\ Frame

NextExec ==
    \/ TestExec
    \/ TestUninitExec
    \/ BenchmarkExec
    \/ AssemblyExec
    \/ CompileExec
    \/ DemoExec
    \/ CompilerExits
    \/ RunTest
    \/ Extract
    \/ RunDemo

SpecExec == InitExec /\ [][NextExec]_vars

----------------------------------------------------------------------------
(* Test discovery and timeout estimation, which run nothing: expand_glob,  *)
(* collect_tests and query_timeout applied to the files of an exercise.    *)

\* User patterns in one call.
MaxPatterns == 2

\* What a user may name: a glob, a file, a directory, something absent.
PatternPool ==
    { "tests/*", "tests/*medium*", "tests/01_small", "tests", "nothing*" }

\* The `default` arguments that the collect_tests methods pass.
DefaultArgs ==
    { << "tests/*", "benchmarks/*" >>, << "tests/*" >>, << "benchmarks/*" >>,
      << "tests/*memcheck*" >>, << "tests/*medium*" >> }

\* query_timeout of the command's class: the total returned, the sys.exit of
\* collect_tests, or what parse_timeout raises.
query_timeout(c, fls, user_tests, timeout, no_timeout) ==
    CASE c \in RunManyCommands ->
           LET collected == collect_tests(c, fls, user_tests)
               for_tests == timeout_for_test_set(fls, collected.v, timeout, no_timeout,
                                                 ExtraTimeout(c))
           IN  IF collected.k = "exit" THEN collected
               ELSE IF for_tests.k = "raise" THEN for_tests
               ELSE PyAdd(compile_timeout(PyNum(DefaultCompileTimeout), no_timeout),
                          for_tests)
      [] c \in AssemblyCommands \cup CompileCommands -> compile_timeout(timeout, no_timeout)
      [] c = "compile-demo" -> PyNum(10)
      [] c = "demo" -> IF Truthy(timeout) THEN PyAdd(PyNum(10), timeout) ELSE PyInf

InitDiscovery ==
    /\ files \in FileSystems
    /\ last = NoCall
    /\ status = "running"
    /\ system = "Linux" /\ machine = "x86_64" /\ argv1 = "test-plain"
    /\ heap = <<>> /\ hist = <<>>
    /\ NoExec

ExpandGlob ==
    \E globs \in SeqsUpTo(PatternPool, MaxPatterns), default \in DefaultArgs :
        Called("expand_glob", << globs, default >>, expand_glob(files, globs, default))

CollectTests ==
    \E c \in Commands, user_tests \in SeqsUpTo(PatternPool, MaxPatterns) :
        Called("collect_tests", << c, user_tests >>, collect_tests(c, files, user_tests))

QueryTimeout ==
    \E c \in Commands, user_tests \in UserTests, t \in TimeOptions :
        Called("query_timeout", << c, user_tests, t[1], t[2] >>,
               query_timeout(c, files, user_tests, t[1], t[2]))

NextDiscovery == ExpandGlob \/ CollectTests \/ QueryTimeout

SpecDiscovery == InitDiscovery /\ [][NextDiscovery]_vars

----------------------------------------------------------------------------
(* Claims about the Compiler values (checked under SpecCompiler).          *)

FourMutators == { "add_source", "add_flag", "add_library", "add_definition" }

IsPrefix(old, new) ==
    Len(old) <= Len(new) /\ SubSeq(new, 1, Len(old)) = old

\* r is c with the item(s) of the call `op(a)` appended to the list the call
\* is about, and nothing else changed.
DiffersOnlyByAppended(c, r, op, a) ==
    /\ r.cls = c.cls /\ r.program = c.program
    /\ r.version = c.version /\ r.apple = c.apple
    /\ r.common_flags = c.common_flags
    /\ CASE op = "add_source" ->
              /\ r.sources = c.sources \o << a[1] >>
              /\ r.flags = c.flags /\ r.libs = c.libs
         [] op = "add_flag" ->
              /\ r.flags = c.flags \o a
              /\ r.sources = c.sources /\ r.libs = c.libs
         [] op = "add_library" ->
              /\ IsPrefix(c.libs, r.libs) /\ Len(r.libs) = Len(c.libs) + 1
              /\ r.libs[Len(r.libs)] \in { a[1], "-l" \o a[1] }
              /\ r.sources = c.sources /\ r.flags = c.flags
         [] op = "add_definition" ->
              /\ IsPrefix(c.flags, r.flags) /\ Len(r.flags) = Len(c.flags) + 1
              /\ startswith(r.flags[Len(r.flags)], "-D" \o a[1])
              /\ r.sources = c.sources /\ r.libs = c.libs

\* C1: a call of add_source, add_flag, add_library or add_definition, on the
\* constructed value or on a value derived from it, leaves every Compiler
\* value that existed before the call as it was (flags, sources, libs and
\* common_flags), and returns a new value that differs from the receiver only
\* by the appended item(s).
C1_MutatorsLeaveReceiver ==
    [][ (last'.n # last.n /\ last'.op \in FourMutators) =>
          /\ \A j \in DOMAIN heap : j \in DOMAIN heap' /\ heap'[j] = heap[j]
          /\ last'.ret \notin DOMAIN heap
          /\ last'.ret \in DOMAIN heap'
          /\ DiffersOnlyByAppended(heap[last'.recv], heap'[last'.ret],
                                   last'.op, last'.args)
      ]_vars

\* add_flag was called on the constructed value after other values had been
\* derived from it.
C1_Witness ==
    /\ last.op = "add_flag"
    /\ last.recv = 1
    /\ Len(heap) >= 3
    /\ heap[1].flags = <<>>
    /\ heap[last.ret].flags = last.args

\* C2: add_omp_flags, for every family, leaves every Compiler value that
\* existed before the call as it was and returns a new value, so that a second
\* call on the same receiver starts from the same common_flags and flags.
C2_OmpLeavesReceiver ==
    [][ (last'.n # last.n /\ last'.op = "add_omp_flags" /\ status' = "running") =>
          /\ \A j \in DOMAIN heap : j \in DOMAIN heap' /\ heap'[j] = heap[j]
          /\ last'.ret \notin DOMAIN heap
      ]_vars

\* What a call of the history contributes to flags, sources, libs and
\* common_flags of the value it was made for.
FlagsOfCall(e, cls, sys, sub) ==
    CASE e.op = "add_flag" -> e.args
      [] e.op = "add_definition" ->
           IF e.args[2] = "None" THEN << "-D" \o e.args[1] >>
           ELSE << "-D" \o e.args[1] \o "=" \o e.args[2] >>
      [] e.op = "add_omp_flags" /\ cls = "GccCompiler" -> << "-fopenmp" >>
      [] e.op = "add_omp_flags" /\ cls = "ClangCompiler" /\ sys # "Darwin" ->
           << "-fopenmp" >>
      [] e.op = "add_omp_flags" /\ cls = "ClangCompiler" /\ sys = "Darwin" ->
           << "-Xpreprocessor", "-fopenmp",
              "-I", e.args[1] \o "/include", "-I", e.args[1] \o "/opt/libomp/include" >>
           \o (IF sub = "assembly" THEN <<>>
               ELSE << "-lomp", "-L", e.args[1] \o "/lib",
                       "-L", e.args[1] \o "/opt/libomp/lib" >>)
      [] OTHER -> <<>>

SourcesOfCall(e) == IF e.op = "add_source" THEN e.args ELSE <<>>

LibsOfCall(e) ==
    IF e.op # "add_library" THEN <<>>
    ELSE IF startswith(e.args[1], "-l") THEN e.args ELSE << "-l" \o e.args[1] >>

CommonOfCall(e, cls) ==
    IF e.op = "add_omp_flags" /\ cls = "NvccCompiler"
    THEN << "-Xcompiler", "-fopenmp" >> ELSE <<>>

RECURSIVE Flatten(_)
Flatten(ss) == IF ss = <<>> THEN <<>> ELSE Head(ss) \o Flatten(Tail(ss))

\* The contributions Of(e) of the calls of history hs, in call order.
InCallOrder(hs, Of(_)) == Flatten([k \in 1..Len(hs) |-> Of(hs[k])])

RegisteredCommonFlags(c) ==
    CASE c.cls = "GccCompiler" -> GccCommonFlags
      [] c.cls = "NvccCompiler" -> NvccCommonFlags
      [] c.cls = "ClangCompiler" ->
           ClangCommonFlags(system, machine, c.version, c.apple)

ExpectedCommand(i, out) ==
    LET c  == heap[i]
        F(e) == FlagsOfCall(e, c.cls, system, argv1)
        C(e) == CommonOfCall(e, c.cls)
    IN  << c.program >>
        \o RegisteredCommonFlags(c) \o InCallOrder(hist[i], C)
        \o InCallOrder(hist[i], F)
        \o InCallOrder(hist[i], SourcesOfCall)
        \o << "-o", out >>
        \o InCallOrder(hist[i], LibsOfCall)

\* C3: compile_command(out_file) of a value built by any sequence of mutator
\* calls is the program, the common flags in registration order, the added
\* flags in call order, the sources in call order, "-o", out_file and the
\* libraries in call order.
C3_CompileCommandOrder ==
    last.op = "compile_command" =>
        last.ret = ExpectedCommand(last.recv, last.args[1])

\* compile_command was taken of a value with flags, sources and libraries.
C3_Witness ==
    /\ last.op = "compile_command"
    /\ heap[last.recv].flags # <<>>
    /\ heap[last.recv].sources # <<>>
    /\ heap[last.recv].libs # <<>>
    /\ Len(last.ret) = 1 + Len(heap[last.recv].common_flags) + 5

----------------------------------------------------------------------------
(* Claims about the timeout policy (checked under SpecTimeout).            *)

\* The first line of a text, without its line end.
FirstLine(text) ==
    LET l == readline(text)
    IN  IF l # "" /\ CharAt(l, Len(l)) = "\n" THEN SubSeq(l, 1, Len(l) - 1) ELSE l

\* The test-definition format: the first line reads `timeout <seconds>`,
\* space-separated, possibly with further fields after the seconds.
IsTimeoutLine(text) ==
    LET fields == split(FirstLine(text), " ")
    IN  /\ Len(fields) >= 2
        /\ fields[1] = "timeout"
        /\ float(fields[2]).k = "num"

SecondsOf(text) == float(split(FirstLine(text), " ")[2])

\* C7: parse_timeout without an override returns None when no_timeout is
\* true, whatever the file says; otherwise the seconds of a first line
\* `timeout <s>` (plus extra_timeout when supplied), and None for any other
\* first line.
C7_ParseTimeoutNoOverride ==
    (last.op = "parse_timeout" /\ last.args[2] = PyNone) =>
        LET text  == files[last.args[1]]
            extra == last.args[4]
        IN  IF last.args[3] = PyBool(TRUE) THEN last.ret = PyNone
            ELSE IF IsTimeoutLine(text)
                 THEN last.ret = (IF extra = PyNone THEN SecondsOf(text)
                                  ELSE PyAdd(SecondsOf(text), extra))
            ELSE last.ret = PyNone

\* C8 as claimed: with no_timeout false, any override that is not None is
\* returned as it is.
C8_AnyOverrideReturned ==
    (last.op = "parse_timeout" /\ last.args[3] # PyBool(TRUE)
        /\ last.args[2] # PyNone) =>
        last.ret = last.args[2]

\* C8, amended: with no_timeout false, an override that is neither None nor 0
\* is returned as it is, whatever the file holds and whatever extra_timeout
\* is (an override of 0 counts as no override).
C8_NonzeroOverrideReturned ==
    (last.op = "parse_timeout" /\ last.args[3] # PyBool(TRUE)
        /\ last.args[2] # PyNone /\ last.args[2] # PyNum(0)) =>
        last.ret = last.args[2]

\* An override was returned although the file declares another timeout and
\* an extra_timeout was supplied.
C8_Witness ==
    /\ last.op = "parse_timeout"
    /\ last.args[3] = PyBool(FALSE)
    /\ last.args[2] = PyNum(7)
    /\ last.args[4] = PyNum(1)
    /\ IsTimeoutLine(files[last.args[1]])
    /\ last.ret = PyNum(7)

\* What parse_timeout yields for the k-th file of a timeout_for_test_set call.
PerFile(k) ==
    parse_timeout(files, last.args[1][k], last.args[2], last.args[3], last.args[4])

RECURSIVE SumOfTimeouts(_)
\* The sum of the per-file timeouts of the first k files.
SumOfTimeouts(k) ==
    IF k = 0 THEN 0
    ELSE SumOfTimeouts(k - 1) + (IF PerFile(k).k = "num" THEN PerFile(k).v ELSE 0)

\* C9: timeout_for_test_set returns +infinity if and only if some file of the
\* list yields None from parse_timeout, and otherwise the sum of the per-file
\* timeouts (0 for the empty list).
C9_TestSetTimeout ==
    last.op = "timeout_for_test_set" =>
        LET n       == Len(last.args[1])
            untimed == \E k \in 1..n : PerFile(k) = PyNone
        IN  /\ (last.ret = PyInf) <=> untimed
            /\ ~untimed => last.ret = PyNum(SumOfTimeouts(n))

\* C10: compile_timeout returns +infinity whenever no_timeout is true;
\* otherwise the override when one is given (that is, neither None nor 0);
\* otherwise the default of 10.
C10_CompileTimeout ==
    last.op = "compile_timeout" =>
        LET timeout == last.args[1]
        IN  IF last.args[2] = PyBool(TRUE) THEN last.ret = PyInf
            ELSE IF timeout.k = "num" /\ timeout.v # 0 THEN last.ret = timeout
            ELSE last.ret = PyNum(10)

\* compile_timeout was asked with no_timeout true and an override given.
C10_Witness ==
    /\ last.op = "compile_timeout"
    /\ last.args = << PyNum(7), PyBool(TRUE) >>
    /\ last.ret = PyInf

\* C11: every timeout that parse_timeout, compile_timeout or (for a list that
\* is not empty) timeout_for_test_set produces is None, +infinity or a number
\* above zero: never zero, never negative, whatever the override and whatever
\* the test files hold.
C11_TimeoutsPositive ==
    ( \/ last.op \in { "parse_timeout", "compile_timeout" }
      \/ (last.op = "timeout_for_test_set" /\ last.args[1] # <<>>) ) =>
        (last.ret.k = "num" => last.ret.v > 0)

----------------------------------------------------------------------------
(* Claims about exec (checked under SpecExec).                             *)

\* The events of kind e, in order.
EventsOf(e) == SelectSeq(events, LAMBDA ev : ev.e = e)

\* The tests named by the events of kind e, in order.
TestsOf(e) == [ k \in 1..Len(EventsOf(e)) |-> EventsOf(e)[k].a ]

\* The k-th event is the report of a run with errors or an unsuccessful exit.
IsFailedResult(k) ==
    /\ events[k].e = "result"
    /\ (events[k].b.errors \/ ~events[k].b.run_successful)

\* The k-th event is a compilation output that is not a success.
IsFailedCompilation(k) ==
    /\ events[k].e = "compiled"
    /\ events[k].a # 0

CompiledSuccessfully ==
    \E k \in 1..Len(events) : events[k].e = "compiled" /\ events[k].a = 0

\* C4: in a test or benchmark command with ignore_errors false, a run that
\* reports errors or an unsuccessful exit is reported, is the last thing that
\* happens (no later test is run or reported), and exec returns False.
C4_FailFast ==
    (cmd \in RunManyCommands /\ ~config.ignore_errors) =>
        \A k \in 1..Len(events) :
            IsFailedResult(k) =>
                /\ k = Len(events)
                /\ k > 1
                /\ events[k - 1].e = "run"
                /\ events[k - 1].a = events[k].a
                /\ pc = "done"
                /\ status = "running"
                /\ ret = "False"

\* A failing run stopped an exec that had tests left to run.
C4_Witness ==
    /\ cmd \in RunManyCommands
    /\ ~config.ignore_errors
    /\ events # <<>>
    /\ IsFailedResult(Len(events))
    /\ idx < Len(tests)
    /\ ret = "False"

\* C5: in a test or benchmark command with ignore_errors true whose
\* compilation succeeded, an exec that has ended has run and reported every
\* discovered test exactly once, in discovery order, and has returned True.
C5_IgnoreErrorsRunsAll ==
    ( /\ cmd \in RunManyCommands
      /\ config.ignore_errors
      /\ CompiledSuccessfully
      /\ pc = "done" ) =>
        /\ status = "running"
        /\ ret = "True"
        /\ TestsOf("run") = tests
        /\ TestsOf("result") = tests

\* C6: in every command, a compilation output that is not a success (a
\* nonzero return code, the -1 of a timeout included) is the last thing that
\* happens (no run, demo, extraction, result or analysis follows), and exec
\* returns False, whatever ignore_errors is.
C6_CompileFailureStops ==
    \A k \in 1..Len(events) :
        IsFailedCompilation(k) =>
            /\ k = Len(events)
            /\ pc = "done"
            /\ status = "running"
            /\ ret = "False"

\* A compilation that timed out ended an exec that ignores errors.
C6_Witness ==
    /\ events # <<>>
    /\ IsFailedCompilation(Len(events))
    /\ events[Len(events)].a = 0 - 1
    /\ config.ignore_errors
    /\ tests # <<>>
    /\ ret = "False"

\* exec gets as far as collect_tests: a compiler was located (and, for
\* test-uninit, qualifies).
ReachesDiscovery ==
    /\ cmd \in RunManyCommands
    /\ pc # "start"
    /\ IF cmd = "test-uninit"
       THEN /\ config.found # 0
            /\ uninit_find_compiler(heap, args.compiler, config.found_gcc,
                                    config.found_clang).k = "ref"
            /\ uninit_find_compiler(heap, args.compiler, config.found_gcc,
                                    config.found_clang) # Found(0)
       ELSE find_compiler(args.compiler, config.found) # 0

\* Something was compiled, run or reported as a test.
CompiledOrRan ==
    \E k \in 1..Len(events) :
        events[k].e \in { "test_group", "benchmark_group", "compile", "compiled",
                          "run", "result" }

\* C14: when test discovery yields no test, collect_tests ends the process
\* with a diagnostic that names the user patterns when any were given and the
\* default directories otherwise; exec never goes on with an empty list, so
\* nothing is compiled or run after an empty discovery.
C14_EmptyDiscoveryAborts ==
    cmd \in RunManyCommands =>
        /\ CompiledOrRan =>
              (tests # <<>> /\ tests = expanded_tests(cmd, files, args.tests))
        /\ (ReachesDiscovery /\ expanded_tests(cmd, files, args.tests) = <<>>) =>
              /\ status = "exit"
              /\ pc = "done"
              /\ ret = "pending"
              /\ ~CompiledOrRan
              /\ events[Len(events)].e = "exit"
              /\ events[Len(events)].b =
                     (IF args.tests # <<>> THEN args.tests ELSE DefaultDirs(cmd))
              /\ events[Len(events)].a =
                     (IF args.tests # <<>> THEN "specified tests" ELSE "default tests")

\* A user pattern that matches nothing ended the process, although the
\* directory holds tests.
C14_Witness ==
    /\ cmd = "test-plain"
    /\ args.tests = << "nothing*" >>
    /\ DOMAIN files # {}
    /\ status = "exit"
    /\ events # <<>>
    /\ events[Len(events)].e = "exit"
    /\ events[Len(events)].a = "specified tests"
    /\ events[Len(events)].b = << "nothing*" >>

\* What test-uninit asks of a compiler: g++ 12 or later, clang++ 8 or later.
Qualifies(c) ==
    /\ c.version # NoVersion
    /\ \/ c.cls = "GccCompiler" /\ c.version[1] >= 12
       \/ c.cls = "ClangCompiler" /\ c.version[1] >= 8

\* C15: whenever test-uninit gets to compile, the compiler it compiles with
\* is a g++ of major version 12 or more or a clang++ of major version 8 or
\* more.
C15_UninitCompilerQualifies ==
    (cmd = "test-uninit" /\ used # 0) =>
        /\ Qualifies(heap[used])
        /\ \A k \in 1..Len(events) :
               events[k].e = "compile" => events[k].a[1] = heap[used].program

\* test-uninit compiled with clang++ and ran to the end.
C15_Witness ==
    /\ cmd = "test-uninit"
    /\ used # 0
    /\ heap[used].cls = "ClangCompiler"
    /\ pc = "done"
    /\ ret = "True"

\* No compiler is pinned, the configuration locates one, the g++ that
\* discovery finds is at major version 11, and the clang++ that discovery
\* finds qualifies.
Gcc11WithQualifyingClang ==
    /\ cmd = "test-uninit"
    /\ args.compiler = 0
    /\ config.found # 0
    /\ config.found_gcc # 0
    /\ heap[config.found_gcc].cls = "GccCompiler"
    /\ heap[config.found_gcc].version # NoVersion
    /\ heap[config.found_gcc].version[1] = 11
    /\ config.found_clang # 0
    /\ Qualifies(heap[config.found_clang])

\* C16: in test-uninit a configured g++ of major version 11 is turned down
\* and clang++ is looked for; a clang++ of major version 8 or more that is
\* found is the compiler used (the limitation is not reported, and nothing
\* but an empty test discovery keeps exec from compiling with it).
C16_Gcc11FallsBackToClang ==
    (Gcc11WithQualifyingClang /\ pc # "start") =>
        /\ \A k \in 1..Len(events) : events[k].e = "log" => events[k].a = "title"
        /\ \/ /\ used # 0
              /\ heap[used].cls = "ClangCompiler"
              /\ heap[used].program = heap[config.found_clang].program
              /\ heap[used].version = heap[config.found_clang].version
           \/ /\ used = 0
              /\ status = "exit"
              /\ events[Len(events)].e = "exit"

\* g++ 11 was turned down and the tests were compiled with clang++ 14.
C16_Witness ==
    /\ Gcc11WithQualifyingClang
    /\ used # 0
    /\ heap[used].program = "clang++"
    /\ heap[used].version = <<14, 0, 0>>
    /\ \E k \in 1..Len(events) : events[k].e = "compiled"

\* A compiler is pinned that is a g++ below 12 or a clang++ below 8.
PinnedBelowThreshold ==
    /\ cmd = "test-uninit"
    /\ args.compiler # 0
    /\ heap[args.compiler].cls \in { "GccCompiler", "ClangCompiler" }
    /\ heap[args.compiler].version # NoVersion
    /\ ~Qualifies(heap[args.compiler])

\* The limitation was reported: test-uninit requires g++ >= 12 or
\* clang++ >= 8.
LimitationReported ==
    \E k \in 1..Len(events) :
        events[k].e = "log" /\ events[k].a = "msg" /\ events[k].b = "requires"

\* C17: in test-uninit a pinned compiler that does not qualify is never
\* replaced by another one: nothing is compiled, with no program at all, and
\* the limitation is reported.
C17_PinnedNeverSubstituted ==
    (PinnedBelowThreshold /\ pc # "start") =>
        /\ used = 0
        /\ \A k \in 1..Len(events) : events[k].e # "compile"
        /\ LimitationReported

\* test-uninit did not find a qualifying compiler: the configuration locates
\* some compiler, and neither the pinned one nor, with none pinned, the g++
\* and the clang++ that discovery finds pass the version checks.
NoQualifyingCompiler ==
    /\ cmd = "test-uninit"
    /\ config.found # 0
    /\ uninit_find_compiler(heap, args.compiler, config.found_gcc,
                            config.found_clang) = Found(0)

C20_CompileReturnsOutput ==
    \A k \in 1..Len(events) :
        (events[k].e = "child" /\ events[k].a \in { "exit", "TimeoutExpired" }) =>
            /\ k < Len(events)
            /\ events[k + 1].e = "compiled"
            /\ events[k + 1].b.is_success = (events[k + 1].a = 0)
            /\ events[k].a = "exit" => events[k + 1].a = events[k].b
            /\ events[k].a = "TimeoutExpired" =>
                  /\ events[k + 1].a = 0 - 1
                  /\ events[k + 1].b.stdout = ""
                  /\ events[k + 1].b.stderr # ""
                  /\ ~events[k + 1].b.is_success

\* A compilation outlived its timeout and compile returned the output made
\* up for it.
C20_Witness ==
    \E k \in 1..(Len(events) - 1) :
        /\ events[k].e = "child"
        /\ events[k].a = "TimeoutExpired"
        /\ events[k + 1].e = "compiled"
        /\ events[k + 1].a = 0 - 1
        /\ status = "running"

\* C21: a timeout at a point where exec spawns a process and waits for it is
\* turned into a failure result: whenever a child process (the compiler, the
\* demo) has outlived its timeout, exec does not end in an exception, and
\* what it returns is False.
C21_TimeoutBecomesFailure ==
    \A k \in 1..Len(events) :
        (events[k].e \in { "child", "demo_child" } /\ events[k].a = "TimeoutExpired") =>
            /\ status # "raise"
            /\ pc = "done" => ret = "False"

\* test-uninit is given a pinned g++ or clang++ whose version is absent.
PinnedWithoutVersion ==
    /\ cmd = "test-uninit"
    /\ args.compiler # 0
    /\ heap[args.compiler].cls \in { "GccCompiler", "ClangCompiler" }
    /\ heap[args.compiler].version = NoVersion

\* C23: test-uninit treats a pinned compiler whose version is absent as one
\* that does not qualify: exec does not end in an exception, nothing is
\* compiled and, where the configuration locates some compiler, the
\* limitation is reported.
C23_AbsentVersionDegrades ==
    (PinnedWithoutVersion /\ pc # "start") =>
        /\ status # "raise"
        /\ \A k \in 1..Len(events) : events[k].e # "compile"
        /\ config.found # 0 => LimitationReported

\* The reports of the discovered tests: reporter.test_group and
\* reporter.benchmark_group.
GroupKinds == { "test_group", "benchmark_group" }

\* C25: a compile-and-run-many exec is strictly sequential.  The tests are
\* discovered, and the group reported with them, before the compilation is
\* started; nothing is started between the start of the compiler and its
\* end; a test is run only after the compilation has ended; every run is
\* followed at once by the report of that run; and the runs follow the order
\* of discovery.
C25_StrictlySequential ==
    cmd \in RunManyCommands =>
        /\ \A k \in 1..Len(events) :
               events[k].e = "compile" =>
                   /\ k > 1
                   /\ events[k - 1].e \in GroupKinds
                   /\ events[k - 1].b = tests
                   /\ k < Len(events) => events[k + 1].e = "child"
        /\ \A k \in 1..Len(events) :
               events[k].e = "child" =>
                   /\ events[k - 1].e = "compile"
                   /\ (k < Len(events) => events[k + 1].e = "compiled")
        /\ \A k \in 1..Len(events) :
               events[k].e = "run" =>
                   /\ \E c \in 1..(k - 1) : events[c].e = "compiled"
                   /\ k < Len(events)
                   /\ events[k + 1].e = "result"
                   /\ events[k + 1].a = events[k].a
        /\ Len(EventsOf("run")) <= Len(tests)
        /\ \A j \in 1..Len(EventsOf("run")) : EventsOf("run")[j].a = tests[j]

\* Two different tests were discovered and both were run, one after the
\* other, to the end of exec.
C25_Witness ==
    /\ cmd \in RunManyCommands
    /\ pc = "done"
    /\ ret = "True"
    /\ Len(tests) = 2
    /\ tests[1] # tests[2]
    /\ Len(EventsOf("run")) = 2
    /\ Len(EventsOf("result")) = 2

\* How often x occurs in the sequence s.
Occurrences(s, x) == Cardinality({ j \in 1..Len(s) : s[j] = x })

\* C26: no step is retried.  In one exec the compiler is started at most
\* once, the demo at most once, and a test is run at most as often as
\* discovery has listed it, whatever the outcomes of the steps.
C26_NoRetry ==
    /\ Len(EventsOf("compile")) <= 1
    /\ Len(EventsOf("demo")) <= 1
    /\ Len(EventsOf("run")) <= Len(tests)
    /\ \A k \in 1..Len(events) :
           events[k].e = "run" =>
               Occurrences(TestsOf("run"), events[k].a) <= Occurrences(tests, events[k].a)

\* With ignore_errors set, the first of two tests failed and exec went on to
\* the second one without running the first again.
C26_Witness ==
    /\ cmd \in RunManyCommands
    /\ config.ignore_errors
    /\ pc = "done"
    /\ Len(tests) = 2
    /\ tests[1] # tests[2]
    /\ Len(EventsOf("result")) = 2
    /\ LET first == EventsOf("result")[1]
       IN  first.a = tests[1] /\ (first.b.errors \/ ~first.b.run_successful)
    /\ Occurrences(TestsOf("run"), tests[1]) = 1

\* exec returned (it neither called sys.exit nor raised).
ExecReturned == pc = "done" /\ status = "running"

\* The compilation succeeded and every discovered test was run and reported
\* with errors false and run_successful true.
AllPassed ==
    /\ CompiledSuccessfully
    /\ Len(EventsOf("result")) >= Len(tests)
    /\ \A j \in 1..Len(tests) :
           LET result == EventsOf("result")[j]
           IN  /\ result.a = tests[j]
               /\ ~result.b.errors
               /\ result.b.run_successful

\* Every discovered test was run once and reported once, in order.
EachRunOnce ==
    /\ Len(EventsOf("run")) = Len(tests)
    /\ Len(EventsOf("result")) = Len(tests)
    /\ \A j \in 1..Len(tests) :
           EventsOf("run")[j].a = tests[j] /\ EventsOf("result")[j].a = tests[j]

\* C27 as stated: with ignore_errors false a compile-and-run-many exec
\* returns True exactly when the compilation succeeded and every discovered
\* test passed, and then every test was run and reported exactly once.
C27_TrueIffAllPassed ==
    (cmd \in RunManyCommands /\ ~config.ignore_errors /\ ExecReturned) =>
        /\ ret = "True" <=> AllPassed
        /\ ret = "True" => EachRunOnce

\* C27 as amended: the same, except where test-uninit found no qualifying
\* compiler; there exec returns True (outside remote execution) without
\* compiling or running anything.
C27_TrueIffAllPassedOrSkipped ==
    (cmd \in RunManyCommands /\ ~config.ignore_errors /\ ExecReturned) =>
        IF NoQualifyingCompiler
        THEN /\ ret = "True" <=> ~config.on_remote
             /\ ~CompiledOrRan
        ELSE /\ ret = "True" <=> AllPassed
             /\ ret = "True" => EachRunOnce

\* Without ignore_errors, two tests were discovered, both passed and exec
\* returned True.
C27_Witness ==
    /\ cmd \in RunManyCommands
    /\ ~config.ignore_errors
    /\ ExecReturned
    /\ ret = "True"
    /\ Len(tests) = 2
    /\ AllPassed

\* The bytes of the UTF-8 encoding of a text, counted line by line: a byte
\* for every character, one more for every two-byte character, and a byte
\* for the newline of every line but an unterminated last one.
Utf8Bytes(text) ==
    LET wide(s) == Cardinality({ j \in 1..Len(s) : CharAt(s, j) \in TwoByteChars })
        of(k)   == text.lines[k].times * (Len(text.lines[k].line) + wide(text.lines[k].line) + 1)
        upTo[k \in 0..Len(text.lines)] == IF k = 0 THEN 0 ELSE upTo[k - 1] + of(k)
    IN  IF text.lines = <<>> THEN 0
        ELSE upTo[Len(text.lines)] - (IF text.eol THEN 0 ELSE 1)

\* C28: in the assembly commands the text handed to analyze is the extracted
\* artifact when its UTF-8 encoding has at most 600000 bytes, and the fixed
\* message otherwise; analyze is called once, after a successful
\* compilation and the extraction, and exec then returns True.
C28_AnalyzeCapped ==
    cmd \in AssemblyCommands =>
        /\ Len(EventsOf("analyze")) <= 1
        /\ \A k \in 1..Len(events) :
               events[k].e = "analyze" =>
                   /\ k = Len(events)
                   /\ events[k - 1].e = "extract"
                   /\ events[k - 2].e = "compiled"
                   /\ events[k - 2].a = 0
                   /\ events[k].b = IF Utf8Bytes(events[k - 1].b) <= 600000
                                    THEN events[k - 1].b
                                    ELSE TooLongMessage
                   /\ ExecReturned
                   /\ ret = "True"
        /\ (ExecReturned /\ CompiledSuccessfully) => Len(EventsOf("analyze")) = 1

\* An artifact of fewer than 600000 characters but more than 600000 bytes
\* was extracted, and the message was reported in its place.
C28_Witness ==
    /\ cmd \in AssemblyCommands
    /\ ExecReturned
    /\ ret = "True"
    /\ Len(events) > 2
    /\ events[Len(events)].e = "analyze"
    /\ events[Len(events)].b = TooLongMessage
    /\ str_len(events[Len(events) - 1].b) < 600000

\* The line of run i of `lines` is left out of the filtered text: it starts
\* with `.quad`, and between it and some earlier line starting with
\* `fatbinData:` there are only lines starting with `.quad`.
Elided(lines, i) ==
    /\ startswith(lines[i].line, ".quad")
    /\ \E j \in 1..(i - 1) :
           /\ startswith(lines[j].line, "fatbinData:")
           /\ \A m \in (j + 1)..(i - 1) : startswith(lines[m].line, ".quad")

\* The filtered lines: every line starting with `fatbinData:` is followed by
\* the elision marker, the elided lines are gone, the others are as they were.
FilteredLines(lines) ==
    Flatten([ i \in 1..Len(lines) |->
                IF Elided(lines, i) THEN <<>>
                ELSE IF startswith(lines[i].line, "fatbinData:")
                THEN Repeated(<< LineRun(lines[i].line, 1), LineRun(ElisionMarker, 1) >>,
                              lines[i].times)
                ELSE << lines[i] >> ])

\* C29: for `assembly` on a gpu exercise the extracted text is the lines of
\* the artifact with the elision marker after every line starting with
\* `fatbinData:` and without the `.quad` lines that directly follow it;
\* outside gpu exercises it is the text of the artifact.
C29_FatbinFiltered ==
    cmd = "assembly" =>
        \A k \in 1..Len(events) :
            events[k].e = "extract" =>
                IF config.gpu
                THEN /\ events[k].b.lines = FilteredLines(events[k].a.lines)
                     /\ ~events[k].b.eol
                ELSE events[k].b = events[k].a

\* On a gpu exercise an artifact with `.quad` lines before, directly after
\* and further after `fatbinData:` lines was filtered.
C29_Witness ==
    /\ cmd = "assembly"
    /\ config.gpu
    /\ \E k \in 1..Len(events) :
           /\ events[k].e = "extract"
           /\ Len(events[k].a.lines) = 8
           /\ events[k].b.lines =
                  << LineRun("main:", 1), LineRun(".quad 1", 1),
                     LineRun("fatbinData:", 1), LineRun(ElisionMarker, 1),
                     LineRun("mov", 1), LineRun(".quad 3", 1),
                     LineRun("fatbinData:", 1), LineRun(ElisionMarker, 1),
                     LineRun("fatbinData:", 1), LineRun(ElisionMarker, 1),
                     LineRun("ret", 1) >>

\* C30: exec of `demo` returns a boolean in each of its four cases: False
\* without compiling when the exercise has no demo, False without running
\* when the compilation of the demo fails, False with the return code and the
\* output reported when the demo exits with a nonzero code, and True after
\* the post-processing when it exits with code 0.
C30_DemoReturnsBoolean ==
    (cmd = "demo" /\ pc = "done") =>
        /\ ~config.demo =>
               /\ ExecReturned /\ ret = "False"
               /\ Len(EventsOf("compile")) = 0
        /\ (\E k \in 1..Len(events) : IsFailedCompilation(k)) =>
               /\ ExecReturned /\ ret = "False"
               /\ Len(EventsOf("demo")) = 0
        /\ \A k \in 1..Len(events) :
               (events[k].e = "demo_child" /\ events[k].a = "exit") =>
                   /\ ExecReturned
                   /\ ret = IF events[k].b = 0 THEN "True" ELSE "False"
                   /\ k < Len(events)
                   /\ events[k + 1].e = IF events[k].b = 0 THEN "demo_post" ELSE "log"

\* The deadlines exec has handed so far to the child processes it started:
\* the compilation, the runs of the tests and the run of the demo, in order.
EnforcedDeadlines ==
    LET started == SelectSeq(events, LAMBDA ev : ev.e \in { "compile", "run", "demo" })
    IN  [ i \in DOMAIN started |-> started[i].b ]

\* A deadline under which the child process is awaited without limit:
\* None, or the +infinity that Compiler.compile turns into None.
NoDeadline(d) == d = PyNone \/ d = PyInf

RECURSIVE TotalOfDeadlines(_)
\* The sum of the deadlines of ds that are numbers.
TotalOfDeadlines(ds) ==
    IF ds = <<>> THEN 0
    ELSE (IF NoDeadline(Head(ds)) THEN 0 ELSE Head(ds).v) + TotalOfDeadlines(Tail(ds))

\* What query_timeout answers for the command and the arguments of this exec.
Queried == query_timeout(cmd, files, args.tests, args.timeout, args.no_timeout)

\* C32: where query_timeout returns a value for the arguments of an exec, the
\* value is +infinity whenever exec hands some child process no deadline, and
\* otherwise is not below the sum of the deadlines exec hands to the
\* compilation, to the runs of the tests and to the run of the demo.
C32_QueryBoundsExec ==
    Queried.k \in { "num", "inf" } =>
        /\ (\E i \in DOMAIN EnforcedDeadlines : NoDeadline(EnforcedDeadlines[i])) =>
               Queried = PyInf
        /\ Queried.k = "num" => TotalOfDeadlines(EnforcedDeadlines) <= Queried.v

\* The timeout under which the child process of the event is awaited: the
\* one subprocess.run gets from Compiler.compile for a compilation, the one
\* handed over as it is for the run of a test or of the demo.
AwaitedUnder(ev) == IF ev.e = "compile" THEN subprocess_timeout(ev.b) ELSE ev.b

\* C33: where no_timeout is set, no child process that exec starts is given a
\* deadline: the compilation, every run of a test and the run of the demo are
\* awaited without limit, also where a timeout override is given.
C33_NoTimeoutNoDeadline ==
    Truthy(args.no_timeout) =>
        \A i \in DOMAIN events :
            events[i].e \in { "compile", "run", "demo" } =>
                AwaitedUnder(events[i]) = PyNone

\* The compiler test-uninit compiles with is a copy of the object i: of its
\* class, its program and its version.
CompilesWith(i) ==
    /\ i # 0
    /\ used # 0
    /\ heap[used].cls = heap[i].cls
    /\ heap[used].program = heap[i].program
    /\ heap[used].version = heap[i].version

\* C34: test-uninit asks Config.find_compiler() first, whatever compiler it
\* was given.  Where that returns None the process is ended once the title is
\* logged, with nothing compiled, also where a compiler that qualifies was
\* pinned.  What Config.find_compiler() returns is not the compiler chosen:
\* test-uninit compiles with the pinned compiler where one is pinned, and
\* otherwise with the g++ of find_gcc_compiler() where that qualifies, and
\* with the clang++ of find_clang_compiler() where it does not.
C34_GenericCheckFirst ==
    (cmd = "test-uninit" /\ pc # "start") =>
        /\ config.found = 0 =>
              /\ status = "exit"
              /\ pc = "done"
              /\ ret = "pending"
              /\ used = 0
              /\ events = << Log("title", cmd) >>
        /\ used # 0 =>
              IF args.compiler # 0 THEN CompilesWith(args.compiler)
              ELSE IF config.found_gcc # 0 /\ Qualifies(heap[config.found_gcc])
                   THEN CompilesWith(config.found_gcc)
                   ELSE CompilesWith(config.found_clang)

\* A g++ that qualifies was pinned, Config.find_compiler() returned None, and
\* the process was ended with nothing compiled.
C34_Witness ==
    /\ cmd = "test-uninit"
    /\ args.compiler # 0
    /\ Qualifies(heap[args.compiler])
    /\ config.found = 0
    /\ status = "exit"
    /\ used = 0
    /\ events = << Log("title", cmd) >>

----------------------------------------------------------------------------
(* Claims about the probes of the compilers (checked under SpecProbe).     *)

\* The probe of the program failed to start, outlived its timeout or exited
\* with a nonzero code.
ProbeFailed(program) ==
    \/ program \notin DOMAIN files
    \/ files[program].k # "exit"
    \/ files[program].returncode # 0

\* C22: constructing a GccCompiler or a ClangCompiler never raises, and where
\* the probe of the program failed the object constructed has no version.
C22_ProbeNeverRaises ==
    last.op \in { "GccCompiler", "ClangCompiler" } =>
        /\ last.ret.k = "object"
        /\ ProbeFailed(last.args[1]) => last.ret.v.version = NoVersion

\* C24: is_valid returns True exactly when the probe exits with code 0 and
\* False for any other exit code; where the program is missing, may not be
\* executed or outlives the timeout of the probe, it ends the process with a
\* diagnostic instead of returning or raising.
C24_IsValid ==
    last.op = "is_valid" =>
        LET program == last.args[1]
        IN  IF program \in DOMAIN files /\ files[program].k = "exit"
            THEN last.ret = PyBool(files[program].returncode = 0)
            ELSE last.ret.k = "exit" /\ last.ret.message # ""

\* is_valid was called on a program whose probe outlived the timeout, and
\* the process was ended.
C24_Witness ==
    /\ last.op = "is_valid"
    /\ last.args[1] \in DOMAIN files
    /\ files[last.args[1]].k = "TimeoutExpired"
    /\ last.ret.k = "exit"

\* The programs a search probes, in the order of its loop, the class it
\* constructs and the least major version it accepts.
Candidates(op) ==
    IF op = "find_gcc_compiler" THEN GCC_BINARIES ELSE CLANG_BINARIES \o GCC_BINARIES

CandidateClass(op) ==
    IF op = "find_gcc_compiler" THEN "GccCompiler" ELSE "ClangCompiler"

FamilyMinimum(op) == IF op = "find_gcc_compiler" THEN MIN_GCC ELSE MIN_CLANG

\* What constructing each candidate of the search gives on this machine.
Made(op) ==
    [ i \in DOMAIN Candidates(op) |->
        new_compiler(files, system, machine, CandidateClass(op), Candidates(op)[i]) ]

\* The candidates that qualify: constructed, with a version, of a major
\* number that is not below the minimum of the family.
Qualifying(op, made) ==
    { i \in DOMAIN made :
        /\ made[i].k = "object"
        /\ made[i].v.version # NoVersion
        /\ made[i].v.version[1] >= FamilyMinimum(op) }

\* `result` is the candidate of the highest version among those of `made`
\* that qualify, the earliest of them where several have that version, or
\* None where none qualifies.
IsHighest(op, made, result) ==
    IF Qualifying(op, made) = {} THEN result = PyNone
    ELSE \E i \in Qualifying(op, made) :
            /\ result = made[i]
            /\ \A j \in Qualifying(op, made) :
                  /\ ~TupleLess(made[i].v.version, made[j].v.version)
                  /\ made[j].v.version = made[i].v.version => i <= j

\* C31: find_gcc_compiler and find_clang_compiler return the candidate whose
\* version is the highest among the candidates that have a version of a major
\* number not below the minimum of the family (8 for GNU, 6 for Clang), the
\* earliest in the list among those of that version, or None where no
\* candidate qualifies.
C31_FindReturnsHighest ==
    last.op \in { "find_gcc_compiler", "find_clang_compiler" } =>
        IsHighest(last.op, Made(last.op), last.ret)

----------------------------------------------------------------------------
(* Claims about test discovery and timeout estimation (checked under       *)
(* SpecDiscovery).                                                         *)

\* The files on disk that a glob pattern matches, in ascending order: the one
\* arrangement of them in which each path is below the next.
MatchesInOrder(pattern) ==
    LET S == glob(files, pattern)
    IN  CHOOSE q \in [1..Cardinality(S) -> S] :
            /\ { q[k] : k \in 1..Cardinality(S) } = S
            /\ \A k \in 1..(Cardinality(S) - 1) : StrLess(q[k], q[k + 1])

\* What one pattern stands for: itself when it is an existing path, else its
\* matches in order.
PatternResult(pattern) ==
    IF exists(files, pattern) THEN << pattern >> ELSE MatchesInOrder(pattern)

\* C12: expand_glob with user patterns returns, pattern by pattern and in the
\* order of the patterns, the pattern itself when it is an existing path and
\* otherwise its glob matches in lexicographic order; the defaults play no part.
C12_UserPatternsExpanded ==
    (last.op = "expand_glob" /\ last.args[1] # <<>>) =>
        last.ret = InCallOrder(last.args[1], PatternResult)

\* A glob with two matches was followed by an existing path.
C12_Witness ==
    /\ last.op = "expand_glob"
    /\ last.args = << << "tests/*", "tests/01_small" >>, << "benchmarks/*" >> >>
    /\ Len(last.ret) = 3
    /\ last.ret[1] = "tests/01_small"
    /\ last.ret[3] = "tests/01_small"

\* The default globs of a command that runs tests, in the order tried.
DefaultsInOrder(c) ==
    IF c \in MemcheckCommands THEN << "tests/*memcheck*", "tests/*medium*" >>
    ELSE DefaultGlobs(c)

RECURSIVE FirstNonEmpty(_)
\* The matches of the first of the globs that matches a file.
FirstNonEmpty(globs) ==
    IF globs = <<>> THEN <<>>
    ELSE IF glob(files, Head(globs)) # {} THEN MatchesInOrder(Head(globs))
    ELSE FirstNonEmpty(Tail(globs))

\* A collect_tests call of a command that runs tests, without user patterns,
\* that returned.
DefaultDiscovery ==
    /\ last.op = "collect_tests"
    /\ last.args[1] \in RunManyCommands
    /\ last.args[2] = <<>>
    /\ last.ret.k = "tests"

\* C13 as claimed: without user patterns the first default glob of the
\* command that matches a file wins, and only its matches are returned.
C13_FirstDefaultWins ==
    DefaultDiscovery => last.ret.v = FirstNonEmpty(DefaultsInOrder(last.args[1]))

\* C13, amended: without user patterns the matches of every default glob of
\* the command are returned, glob after glob, each glob's matches in order;
\* only the memcheck commands return the matches of the first of their two
\* default globs that matches a file.
C13_DefaultsConcatenated ==
    DefaultDiscovery =>
        last.ret.v = IF last.args[1] \in MemcheckCommands
                     THEN FirstNonEmpty(DefaultsInOrder(last.args[1]))
                     ELSE InCallOrder(DefaultsInOrder(last.args[1]), MatchesInOrder)

\* test-plain found a test and a benchmark, and returned both.
C13_Witness ==
    /\ DefaultDiscovery
    /\ last.args[1] = "test-plain"
    /\ last.ret.v = << "tests/02_medium", "benchmarks/1" >>

\* The deadline the timeout policy gives one test of a query_timeout call:
\* None under no_timeout, else the override when there is one, else what the
\* test file declares plus the command's extra_timeout, else None.
QueriedTestTimeout(test) ==
    LET c == last.args[1]
    IN  IF Truthy(last.args[4]) THEN PyNone
        ELSE IF Truthy(last.args[3]) THEN last.args[3]
        ELSE IF IsTimeoutLine(files[test])
             THEN PyAdd(SecondsOf(files[test]), ExtraTimeout(c))
        ELSE PyNone

RECURSIVE SumQueried(_)
\* The sum of the deadlines of the tests, which all have one.
SumQueried(ts) ==
    IF ts = <<>> THEN 0
    ELSE QueriedTestTimeout(Head(ts)).v + SumQueried(Tail(ts))

\* C19: query_timeout of a command that runs tests compiles nothing and runs
\* nothing, and returns the compile timeout plus the sum of the per-test
\* timeouts over the very list exec would discover from the same arguments:
\* +infinity when no_timeout is set or some test has no deadline.
C19_QueryTimeoutSum ==
    ( /\ last.op = "query_timeout"
      /\ last.args[1] \in RunManyCommands
      /\ expanded_tests(last.args[1], files, last.args[2]) # <<>> ) =>
        LET ts      == expanded_tests(last.args[1], files, last.args[2])
            untimed == \E k \in 1..Len(ts) : QueriedTestTimeout(ts[k]) = PyNone
        IN  /\ events = <<>>
            /\ pc = "idle"
            /\ last.ret = IF Truthy(last.args[4]) \/ untimed THEN PyInf
                          ELSE PyNum(DefaultCompileTimeout + SumQueried(ts))

====
